---- MODULE Spec2Model ----
(***************************************************************************)
(* resilient-http: the circuit breaker (src/circuit-breaker) and the retry *)
(* orchestrator (src/retry), modelled as state machines.                   *)
(*                                                                         *)
(* Time is the value of Date.now() in milliseconds.  One breaker object is *)
(* shared by NumCallers concurrent execute() calls; every synchronous run  *)
(* of breaker code between two awaits is one atomic action (JavaScript's   *)
(* run-to-completion scheduling).                                          *)
(***************************************************************************)
EXTENDS Integers, Sequences, FiniteSets, TLC

\* ------------------------------------------------------------------ bounds
NumCallers == 2      \* concurrent execute() calls sharing the breaker
MaxElapsed == 1250   \* the clock runs from StartTime to StartTime + MaxElapsed
MaxRecords == 4      \* outcomes recorded on the breaker in one behaviour
MaxAttemptsBound == 3  \* largest maxAttempts a retry call is configured with
MaxBackoffAttempt == 6  \* largest attempt number calculateBackoff is called with
MaxJitterCalls == 2     \* delays computed in one retry run
MaxForces == 1       \* forceState or reset calls in one behaviour
MaxObjects == 3      \* state objects allocated in one behaviour
StoreBucketCount == 2  \* the bucketCount createInitialState is called with
StartTime  == 20000  \* Date.now() when the breaker is constructed

Null == -1           \* JavaScript null for a timestamp

TickSteps == {250, 500}

Callers == 1 .. NumCallers

\* --------------------------------------------------- breaker configuration
DEFAULT_CIRCUIT_CONFIG ==
  [failureThreshold |-> 50, minimumRequests |-> 10, rollingWindow |-> 60000,
   resetTimeout |-> 30000, successThreshold |-> 3, halfOpenMaxRequests |-> 1,
   bucketCount |-> 10]

Max(a, b) == IF a >= b THEN a ELSE b
Min(a, b) == IF a <= b THEN a ELSE b

clamp(value, min, max) == Max(min, Min(max, value))

validateAndResolveConfig(options) ==
  LET failureThreshold    == clamp(options.failureThreshold, 1, 100)
      minimumRequests     == Max(1, options.minimumRequests)
      rollingWindow       == Max(1000, options.rollingWindow)
      resetTimeout        == Max(100, options.resetTimeout)
      successThreshold    == Max(1, options.successThreshold)
      halfOpenMaxRequests == Max(1, options.halfOpenMaxRequests)
      bucketCount         == clamp(options.bucketCount, 2, 60)
  IN  [failureThreshold    |-> failureThreshold,
       minimumRequests     |-> minimumRequests,
       rollingWindow       |-> rollingWindow,
       resetTimeout        |-> resetTimeout,
       successThreshold    |-> successThreshold,
       halfOpenMaxRequests |-> halfOpenMaxRequests,
       bucketCount         |-> bucketCount,
       bucketDuration      |-> rollingWindow \div bucketCount,
       onOpen     |-> IF "onOpen" \in DOMAIN options
                        THEN options.onOpen ELSE "undefined",
       onClose    |-> IF "onClose" \in DOMAIN options
                        THEN options.onClose ELSE "undefined",
       onHalfOpen |-> IF "onHalfOpen" \in DOMAIN options
                        THEN options.onHalfOpen ELSE "undefined"]

\* The options the breaker is constructed with: every combination below,
\* out-of-range values included (they are clamped by the constructor).  The
\* stateStore option is the store of the model, under the key circuitId.
BreakerOptions ==
  [failureThreshold    : {50},
   minimumRequests     : {0, 2},
   rollingWindow       : {1000},
   resetTimeout        : {500},
   successThreshold    : {0, 2},
   halfOpenMaxRequests : {0, 2},
   bucketCount         : {1},
   circuitId           : {"circuit-1"}]
  \cup
  [failureThreshold    : {150},
   minimumRequests     : {2},
   rollingWindow       : {1000},
   resetTimeout        : {500},
   successThreshold    : {0},
   halfOpenMaxRequests : {0, 2},
   bucketCount         : {1},
   circuitId           : {"circuit-1"}]

CircuitBreakerOpenError ==
  [name |-> "CircuitBreakerOpenError", message |-> "Circuit breaker is open"]
HalfOpenLimitError ==
  [name |-> "CircuitBreakerOpenError",
   message |-> "Circuit breaker is half-open, probe limit reached"]
OperationError == [name |-> "Error", message |-> "failure"]
NoError == [name |-> "none", message |-> ""]

\* ------------------------------------------- options as JavaScript numbers
\* An option of type number is undefined, NaN, an infinity, or a finite value
\* kept in halves (h = 2 * value), so that 2.5 is a value.
Undef  == [kind |-> "undefined", h |-> 0]
NaN    == [kind |-> "NaN", h |-> 0]
PosInf == [kind |-> "+Infinity", h |-> 0]
NegInf == [kind |-> "-Infinity", h |-> 0]
Num(v) == [kind |-> "finite", h |-> 2 * v]
Half(h) == [kind |-> "finite", h |-> h]

\* a < b on numbers that are not NaN
numLess(a, b) ==
  CASE a.kind = "-Infinity" -> b.kind # "-Infinity"
    [] a.kind = "+Infinity" -> FALSE
    [] b.kind = "+Infinity" -> TRUE
    [] b.kind = "-Infinity" -> FALSE
    [] OTHER -> a.h < b.h

\* Math.max and Math.min return NaN when an argument is NaN.
mathMax(a, b) ==
  IF a.kind = "NaN" \/ b.kind = "NaN" THEN NaN
  ELSE IF numLess(a, b) THEN b ELSE a

mathMin(a, b) ==
  IF a.kind = "NaN" \/ b.kind = "NaN" THEN NaN
  ELSE IF numLess(b, a) THEN b ELSE a

clampNumber(value, min, max) == mathMax(min, mathMin(max, value))

\* options.x ?? DEFAULT_CIRCUIT_CONFIG.x
orDefault(value, default) ==
  IF value.kind = "undefined" THEN Num(default) ELSE value

\* Math.floor(a / b) for a divisor b that is NaN or finite and positive
\* (bucketCount after clamp).
floorOfQuotient(a, b) ==
  CASE a.kind = "NaN" \/ b.kind = "NaN" -> NaN
    [] a.kind # "finite" -> a
    [] OTHER -> Num(a.h \div b.h)

\* validateAndResolveConfig on JavaScript numbers; on integer options it is
\* validateAndResolveConfig above.
validateAndResolveNumbers(options) ==
  LET failureThreshold ==
        clampNumber(orDefault(options.failureThreshold,
                              DEFAULT_CIRCUIT_CONFIG.failureThreshold),
                    Num(1), Num(100))
      minimumRequests ==
        mathMax(Num(1), orDefault(options.minimumRequests,
                                  DEFAULT_CIRCUIT_CONFIG.minimumRequests))
      rollingWindow ==
        mathMax(Num(1000), orDefault(options.rollingWindow,
                                     DEFAULT_CIRCUIT_CONFIG.rollingWindow))
      resetTimeout ==
        mathMax(Num(100), orDefault(options.resetTimeout,
                                    DEFAULT_CIRCUIT_CONFIG.resetTimeout))
      successThreshold ==
        mathMax(Num(1), orDefault(options.successThreshold,
                                  DEFAULT_CIRCUIT_CONFIG.successThreshold))
      halfOpenMaxRequests ==
        mathMax(Num(1), orDefault(options.halfOpenMaxRequests,
                                  DEFAULT_CIRCUIT_CONFIG.halfOpenMaxRequests))
      bucketCount ==
        clampNumber(orDefault(options.bucketCount,
                              DEFAULT_CIRCUIT_CONFIG.bucketCount),
                    Num(2), Num(60))
  IN  [failureThreshold    |-> failureThreshold,
       minimumRequests     |-> minimumRequests,
       rollingWindow       |-> rollingWindow,
       resetTimeout        |-> resetTimeout,
       successThreshold    |-> successThreshold,
       halfOpenMaxRequests |-> halfOpenMaxRequests,
       bucketCount         |-> bucketCount,
       bucketDuration      |-> floorOfQuotient(rollingWindow, bucketCount)]

\* new Array(len) throws a RangeError unless len is an integer in
\* 0 .. 2^32 - 1 (h < 2^33, written as h \div 8 < 2^30).
arrayLengthValid(len) ==
  len.kind = "finite" /\ len.h % 2 = 0 /\ len.h >= 0 /\ len.h \div 8 < 1073741824

RangeError == [name |-> "RangeError", message |-> "Invalid array length"]

\* new CircuitBreaker(options): the resolved config, and the error the
\* constructor throws when the bucket array cannot be created.
constructBreaker(options) ==
  LET config == validateAndResolveNumbers(options)
  IN  [config |-> config,
       error |-> IF arrayLengthValid(config.bucketCount) THEN NoError
                 ELSE RangeError,
       buckets |-> IF arrayLengthValid(config.bucketCount)
                     THEN config.bucketCount.h \div 2 ELSE 0]

\* The numeric options a breaker is constructed with.
NumberOptions ==
  [failureThreshold    : {Undef, Num(0), Num(50), Num(150), NaN},
   minimumRequests     : {Undef, Num(-5), Num(3)},
   rollingWindow       : {Undef, Num(100), Half(2001), Num(5000), PosInf},
   resetTimeout        : {Undef, Num(10), Num(500)},
   successThreshold    : {Undef, Num(0), Num(2)},
   halfOpenMaxRequests : {Undef, Num(-1), Num(2)},
   bucketCount         : {Undef, Num(1), Num(2), Half(5), Num(60), Num(61), NaN,
                          NegInf}]

VARIABLES
  breaker,   \* the CircuitBreaker object: its private fields and its config
  now,       \* Date.now()
  calls,     \* per caller: where its execute() call stands
  hist,      \* history: outcomes recorded, successes since half-open began,
             \* forceState calls, when the breaker was last forced open
  last,      \* history: the operation that ran last and what it returned
  rcfg,      \* the retry call: its resolved config and its environment
  retry,     \* the retry call: its locals, and the calls it has made so far
  store,     \* an InMemoryStateStore, the objects on the heap and who holds them
  pure,      \* a call of a pure function: its arguments and what it returned
  extractors \* the registry of custom extractors, and the last call made on it

bvars == <<breaker, now, calls, hist, last>>
rvars == <<rcfg, retry>>
vars  == <<breaker, now, calls, hist, last, rcfg, retry, store, pure,
          extractors>>

\* No custom extractor is registered, and no call was made on the registry.
NoExtractors ==
  extractors = [list |-> <<>>, op |-> "none", name |-> "", before |-> <<>>,
                returned |-> "", prior |-> "none", priorName |-> "",
                priorBefore |-> <<>>, log |-> <<>>, error |-> 0, result |-> 0]

\* No pure function is being called.
NoPureCall == pure = [fn |-> "none", called |-> FALSE] /\ NoExtractors

\* ------------------------------------------------------------ bucket ring
EmptyBucket == [success |-> 0, failure |-> 0, timestamp |-> 0]

createInitialBuckets(bucketCount) == [i \in 0 .. bucketCount - 1 |-> EmptyBucket]

resetBuckets(b) ==
  [b EXCEPT !.buckets = [i \in DOMAIN b.buckets |-> EmptyBucket]]

\* getCurrentBucket: the index of the bucket for time t.
bucketIndexAt(b, t) == (t \div b.config.bucketDuration) % b.config.bucketCount

\* getCurrentBucket: the ring after the stale-bucket reset for time t.
getCurrentBucket(b, t) ==
  LET i == bucketIndexAt(b, t)
      bucketAge == t - b.buckets[i].timestamp
  IN  IF bucketAge >= b.config.bucketDuration
        THEN [b EXCEPT !.buckets[i] = [success |-> 0, failure |-> 0, timestamp |-> t]]
        ELSE b

RECURSIVE SumLive(_, _, _, _)
SumLive(buckets, idx, cutoff, field) ==
  IF idx = {} THEN 0
  ELSE LET i == CHOOSE j \in idx : TRUE
       IN  (IF buckets[i].timestamp > cutoff THEN buckets[i][field] ELSE 0)
           + SumLive(buckets, idx \ {i}, cutoff, field)

\* Variant: every bucket is summed, whatever its age.
windowMetrics_AllBuckets(b, t) ==
  LET successfulRequests == SumLive(b.buckets, DOMAIN b.buckets, -1, "success")
      failedRequests     == SumLive(b.buckets, DOMAIN b.buckets, -1, "failure")
      totalRequests      == successfulRequests + failedRequests
  IN  [totalRequests      |-> totalRequests,
       failedRequests     |-> failedRequests,
       successfulRequests |-> successfulRequests,
       rateNum            |-> IF totalRequests > 0 THEN failedRequests * 100 ELSE 0,
       rateDen            |-> totalRequests]

\* getMetrics, the counts: sums over the buckets newer than the cutoff.
\* failureRate is the quotient (failed / total) * 100; rateNum / rateDen keeps
\* it exact (rateDen = 0 stands for the rate 0 of an empty window).
windowMetrics(b, t) ==
  LET cutoff == t - b.config.rollingWindow
      successfulRequests == SumLive(b.buckets, DOMAIN b.buckets, cutoff, "success")
      failedRequests     == SumLive(b.buckets, DOMAIN b.buckets, cutoff, "failure")
      totalRequests      == successfulRequests + failedRequests
  IN  [totalRequests      |-> totalRequests,
       failedRequests     |-> failedRequests,
       successfulRequests |-> successfulRequests,
       rateNum            |-> IF totalRequests > 0 THEN failedRequests * 100 ELSE 0,
       rateDen            |-> totalRequests]

\* metrics.failureRate >= threshold
rateAtLeast(m, threshold) ==
  IF m.rateDen = 0 THEN 0 >= threshold ELSE m.rateNum >= threshold * m.rateDen

\* ------------------------------------------------------ state transitions
\* Variant: a transition leaves the half-open counters as they are.
transitionTo_KeepsCounters(b, newState) ==
  IF b.state = newState THEN b
  ELSE LET b1 == [b EXCEPT !.state = newState]
           b2 == IF newState = "closed" THEN resetBuckets(b1) ELSE b1
           observer == CASE newState = "open" -> "onOpen"
                         [] newState = "closed" -> "onClose"
                         [] OTHER -> "onHalfOpen"
       IN  IF b2.config[observer] = "undefined" THEN b2
           ELSE [b2 EXCEPT !.fired = Append(@, observer)]

\* Variant: the observer is called on every request, the state changing or
\* not.
transitionTo_AlwaysNotifies(b, newState) ==
  LET b1 == [b EXCEPT !.state = newState,
                      !.halfOpenSuccesses = 0,
                      !.halfOpenActiveRequests = 0]
      b2 == IF newState = "closed" THEN resetBuckets(b1) ELSE b1
      observer == CASE newState = "open" -> "onOpen"
                    [] newState = "closed" -> "onClose"
                    [] OTHER -> "onHalfOpen"
  IN  IF b2.config[observer] = "undefined" THEN b2
      ELSE [b2 EXCEPT !.fired = Append(@, observer)]

\* The observers are optional (this.config.onOpen?.()); fired is the list of
\* the calls made to the ones the breaker was constructed with.
transitionTo(b, newState) ==
  IF b.state = newState THEN b
  ELSE LET b1 == [b EXCEPT !.state = newState,
                           !.halfOpenSuccesses = 0,
                           !.halfOpenActiveRequests = 0]
           b2 == IF newState = "closed" THEN resetBuckets(b1) ELSE b1
           observer == CASE newState = "open" -> "onOpen"
                         [] newState = "closed" -> "onClose"
                         [] OTHER -> "onHalfOpen"
       IN  IF b2.config[observer] = "undefined" THEN b2
           ELSE [b2 EXCEPT !.fired = Append(@, observer)]

\* Variant: the breaker waits for strictly more than resetTimeout.
shouldAttemptReset_Strict(b, t) ==
  \/ b.lastFailureTime = Null
  \/ b.lastFailureTime = 0
  \/ t - b.lastFailureTime > b.config.resetTimeout

shouldAttemptReset(b, t) ==
  \/ b.lastFailureTime = Null
  \/ b.lastFailureTime = 0
  \/ t - b.lastFailureTime >= b.config.resetTimeout

\* Variant: an open breaker whose resetTimeout elapsed closes without probing.
checkStateTransition_SkipsProbe(b, t) ==
  IF b.transitionInProgress THEN b
  ELSE IF b.state = "open" /\ shouldAttemptReset(b, t)
         THEN [transitionTo([b EXCEPT !.transitionInProgress = TRUE], "closed")
                 EXCEPT !.transitionInProgress = FALSE]
         ELSE b

\* transitionInProgress is raised and lowered inside this one synchronous
\* call, so it is FALSE again in the value returned.
checkStateTransition(b, t) ==
  IF b.transitionInProgress THEN b
  ELSE IF b.state = "open" /\ shouldAttemptReset(b, t)
         THEN [transitionTo([b EXCEPT !.transitionInProgress = TRUE], "half-open")
                 EXCEPT !.transitionInProgress = FALSE]
         ELSE b

\* Variant: the breaker opens on a full window, whatever its failure rate.
evaluateState_AnyRate(b, t) ==
  IF b.state # "closed" THEN b
  ELSE IF windowMetrics(b, t).totalRequests < b.config.minimumRequests THEN b
  ELSE transitionTo(b, "open")

\* Variant: the minimumRequests guard is missing.
evaluateState_NoMinimum(b, t) ==
  IF b.state # "closed" THEN b
  ELSE IF rateAtLeast(windowMetrics(b, t), b.config.failureThreshold)
         THEN transitionTo(b, "open")
         ELSE b

evaluateState(b, t) ==
  IF b.state # "closed" THEN b
  ELSE LET metrics == windowMetrics(b, t)
       IN  IF metrics.totalRequests < b.config.minimumRequests THEN b
           ELSE IF rateAtLeast(metrics, b.config.failureThreshold)
                  THEN transitionTo(b, "open")
                  ELSE b

\* Variant: half-open closes one success late (> for >=).
recordSuccess_LateClose(b, t) ==
  LET b1 == getCurrentBucket([b EXCEPT !.lastSuccessTime = t], t)
      i  == bucketIndexAt(b, t)
      b2 == [b1 EXCEPT !.buckets[i].success = @ + 1]
      b3 == IF b2.state = "half-open"
              THEN LET b4 == [b2 EXCEPT !.halfOpenSuccesses = @ + 1]
                   IN  IF b4.halfOpenSuccesses > b4.config.successThreshold
                         THEN transitionTo(b4, "closed")
                         ELSE b4
              ELSE b2
  IN  evaluateState(b3, t)

recordSuccess(b, t) ==
  LET b1 == getCurrentBucket([b EXCEPT !.lastSuccessTime = t], t)
      i  == bucketIndexAt(b, t)
      b2 == [b1 EXCEPT !.buckets[i].success = @ + 1]
      b3 == IF b2.state = "half-open"
              THEN LET b4 == [b2 EXCEPT !.halfOpenSuccesses = @ + 1]
                   IN  IF b4.halfOpenSuccesses >= b4.config.successThreshold
                         THEN transitionTo(b4, "closed")
                         ELSE b4
              ELSE b2
  IN  evaluateState(b3, t)

recordFailure(b, t) ==
  LET b1 == getCurrentBucket([b EXCEPT !.lastFailureTime = t], t)
      i  == bucketIndexAt(b, t)
      b2 == [b1 EXCEPT !.buckets[i].failure = @ + 1]
      b3 == IF b2.state = "half-open" THEN transitionTo(b2, "open") ELSE b2
  IN  evaluateState(b3, t)

\* Variant: a rejection is recorded as a failure.
admit_CountsRejection(b, t) ==
  LET b1 == checkStateTransition(b, t)
      currentState == b1.state
  IN  IF currentState = "open"
        THEN [breaker |-> recordFailure(b1, t), currentState |-> currentState,
              error |-> CircuitBreakerOpenError]
      ELSE IF currentState = "half-open"
        THEN IF b1.halfOpenActiveRequests >= b1.config.halfOpenMaxRequests
               THEN [breaker |-> recordFailure(b1, t),
                     currentState |-> currentState,
                     error |-> HalfOpenLimitError]
               ELSE [breaker |-> [b1 EXCEPT !.halfOpenActiveRequests = @ + 1],
                     currentState |-> currentState, error |-> NoError]
      ELSE [breaker |-> b1, currentState |-> currentState, error |-> NoError]

\* Variant: half-open admits without looking at the probe limit.
admit_NoProbeLimit(b, t) ==
  LET b1 == checkStateTransition(b, t)
      currentState == b1.state
  IN  IF currentState = "open"
        THEN [breaker |-> b1, currentState |-> currentState,
              error |-> CircuitBreakerOpenError]
      ELSE IF currentState = "half-open"
        THEN [breaker |-> [b1 EXCEPT !.halfOpenActiveRequests = @ + 1],
              currentState |-> currentState, error |-> NoError]
      ELSE [breaker |-> b1, currentState |-> currentState, error |-> NoError]

\* Variant: the open state is not rejected at admission.
admit_OpenAdmits(b, t) ==
  LET b1 == checkStateTransition(b, t)
      currentState == b1.state
  IN  IF currentState = "half-open"
        THEN IF b1.halfOpenActiveRequests >= b1.config.halfOpenMaxRequests
               THEN [breaker |-> b1, currentState |-> currentState,
                     error |-> HalfOpenLimitError]
               ELSE [breaker |-> [b1 EXCEPT !.halfOpenActiveRequests = @ + 1],
                     currentState |-> currentState, error |-> NoError]
      ELSE [breaker |-> b1, currentState |-> currentState, error |-> NoError]

\* execute: the admission decision.  currentState is the
\* state getState() returned; error is what execute throws before invoking
\* the operation (NoError when the call is admitted).
admit(b, t) ==
  LET b1 == checkStateTransition(b, t)
      currentState == b1.state
  IN  IF currentState = "open"
        THEN [breaker |-> b1, currentState |-> currentState,
              error |-> CircuitBreakerOpenError]
      ELSE IF currentState = "half-open"
        THEN IF b1.halfOpenActiveRequests >= b1.config.halfOpenMaxRequests
               THEN [breaker |-> b1, currentState |-> currentState,
                     error |-> HalfOpenLimitError]
               ELSE [breaker |-> [b1 EXCEPT !.halfOpenActiveRequests = @ + 1],
                     currentState |-> currentState, error |-> NoError]
      ELSE [breaker |-> b1, currentState |-> currentState, error |-> NoError]

\* Variant: the slot of a probe is never given back.
release_Leaks(b, currentState) == b

\* execute: the finally block of a call admitted in currentState.
release(b, currentState) ==
  IF currentState = "half-open"
    THEN [b EXCEPT !.halfOpenActiveRequests = Max(0, @ - 1)]
    ELSE b

\* ---------------------------------------------------------------- history
\* Successes recorded since the breaker last entered half-open, counted from
\* the states before and after a recording, not from the breaker's counter.
SuccSince(before, after, success) ==
  IF after.state = "half-open" /\ before.state # "half-open" THEN 0
  ELSE IF before.state = "half-open" /\ success THEN hist.succSince + 1
  ELSE hist.succSince

Last(op, caller, before, error, invoked) ==
  [op |-> op, caller |-> caller, from |-> before.state, currentState |-> "none",
   error |-> error, fnInvoked |-> invoked, stale |-> FALSE]

\* A call is idle, or awaits its operation holding the state it was admitted
\* in.  stale (history) marks a probe that was in flight when a failure
\* reopened the breaker.
IdleCall == [pc |-> "idle", currentState |-> "none", stale |-> FALSE]

\* History: when half-open ends in open, the probes in flight become stale.
MarkStale(cs, before, after) ==
  [c \in Callers |->
     IF /\ cs[c].pc = "awaiting"
        /\ cs[c].currentState = "half-open"
        /\ before.state = "half-open"
        /\ after.state = "open"
       THEN [cs[c] EXCEPT !.stale = TRUE]
       ELSE cs[c]]

\* ------------------------------------------------------------------- Init
\* No call has been made on the breaker yet.
NoCalls ==
  /\ now = StartTime
  /\ calls = [c \in Callers |-> IdleCall]
  /\ hist = [records |-> 0, succSince |-> 0, forces |-> 0,
             forcedOpenAt |-> Null]
  /\ last = [op |-> "new", caller |-> 0, from |-> "closed",
             currentState |-> "none", error |-> NoError, fnInvoked |-> FALSE,
             stale |-> FALSE]

\* new CircuitBreaker(options): the fields and their initializers.
CircuitBreaker(options) ==
  [config |-> validateAndResolveConfig(options),
   state |-> "closed",
   buckets |-> createInitialBuckets(
                 validateAndResolveConfig(options).bucketCount),
   lastFailureTime |-> Null,
   lastSuccessTime |-> Null,
   halfOpenSuccesses |-> 0,
   halfOpenActiveRequests |-> 0,
   transitionInProgress |-> FALSE,
   fired |-> <<>>]

BreakerInit ==
  /\ \E options \in BreakerOptions : breaker = CircuitBreaker(options)
  /\ NoCalls

\* ---------------------------------------------------------------- actions
\* The clock advances between two synchronous runs.
Tick ==
  /\ \E d \in TickSteps :
       /\ now + d <= StartTime + MaxElapsed
       /\ now' = now + d
  /\ last' = Last("tick", 0, breaker, NoError, FALSE)
  /\ UNCHANGED <<breaker, calls, hist, rcfg, retry, store, pure, extractors>>

\* breaker.getState()
GetState ==
  /\ breaker' = checkStateTransition(breaker, now)
  /\ hist' = [hist EXCEPT !.succSince = SuccSince(breaker, breaker', FALSE)]
  /\ last' = Last("getState", 0, breaker, NoError, FALSE)
  /\ UNCHANGED <<now, calls, rcfg, retry, store, pure, extractors>>

\* breaker.execute(fn) up to the first await: admission, then fn is invoked.
Execute(c) ==
  /\ calls[c].pc = "idle"
  /\ hist.records + Cardinality({d \in Callers : calls[d].pc = "awaiting"}) < MaxRecords
  /\ LET a == admit(breaker, now)
     IN  /\ breaker' = a.breaker
         /\ calls' = [calls EXCEPT ![c] =
                        IF a.error = NoError
                          THEN [pc |-> "awaiting", currentState |-> a.currentState,
                                stale |-> FALSE]
                          ELSE IdleCall]
         /\ last' = [Last("execute", c, breaker, a.error, a.error = NoError)
                       EXCEPT !.currentState = a.currentState]
  /\ hist' = [hist EXCEPT !.succSince = SuccSince(breaker, breaker', FALSE)]
  /\ UNCHANGED <<now, rcfg, retry, store, pure, extractors>>

\* The operation of caller c resolves: recordSuccess, then the finally block.
Resolve(c) ==
  /\ calls[c].pc = "awaiting"
  /\ breaker' = release(recordSuccess(breaker, now), calls[c].currentState)
  /\ calls' = MarkStale([calls EXCEPT ![c] = IdleCall], breaker, breaker')
  /\ hist' = [hist EXCEPT !.records = @ + 1,
                         !.succSince = SuccSince(breaker, breaker', TRUE)]
  /\ last' = [Last("resolve", c, breaker, NoError, FALSE)
                EXCEPT !.currentState = calls[c].currentState,
                       !.stale = calls[c].stale]
  /\ UNCHANGED <<now, rcfg, retry, store, pure, extractors>>

\* breaker.recordSuccess() called directly (manual integration).
RecordSuccess ==
  /\ hist.records + Cardinality({d \in Callers : calls[d].pc = "awaiting"}) < MaxRecords
  /\ breaker' = recordSuccess(breaker, now)
  /\ hist' = [hist EXCEPT !.records = @ + 1,
                         !.succSince = SuccSince(breaker, breaker', TRUE)]
  /\ last' = Last("recordSuccess", 0, breaker, NoError, FALSE)
  /\ calls' = MarkStale(calls, breaker, breaker')
  /\ UNCHANGED <<now, rcfg, retry, store, pure, extractors>>

\* breaker.recordFailure() called directly (manual integration).
RecordFailure ==
  /\ hist.records + Cardinality({d \in Callers : calls[d].pc = "awaiting"}) < MaxRecords
  /\ breaker' = recordFailure(breaker, now)
  /\ hist' = [hist EXCEPT !.records = @ + 1,
                         !.succSince = SuccSince(breaker, breaker', FALSE)]
  /\ last' = Last("recordFailure", 0, breaker, NoError, FALSE)
  /\ calls' = MarkStale(calls, breaker, breaker')
  /\ UNCHANGED <<now, rcfg, retry, store, pure, extractors>>

\* The operation of caller c rejects: recordFailure, rethrow, finally block.
Reject(c) ==
  /\ calls[c].pc = "awaiting"
  /\ breaker' = release(recordFailure(breaker, now), calls[c].currentState)
  /\ calls' = MarkStale([calls EXCEPT ![c] = IdleCall], breaker, breaker')
  /\ hist' = [hist EXCEPT !.records = @ + 1,
                         !.succSince = SuccSince(breaker, breaker', FALSE)]
  /\ last' = [Last("reject", c, breaker, OperationError, FALSE)
                EXCEPT !.currentState = calls[c].currentState,
                       !.stale = calls[c].stale]
  /\ UNCHANGED <<now, rcfg, retry, store, pure, extractors>>

BreakerNext ==
  \/ Tick
  \/ GetState
  \/ \E c \in Callers : Execute(c)
  \/ \E c \in Callers : Resolve(c)
  \/ \E c \in Callers : Reject(c)
  \/ RecordSuccess
  \/ RecordFailure

\* ------------------------------------------------------------ forceState
\* Variant: forcing open leaves lastFailureTime as it was.
forceState_KeepsFailureTime(b, state, t) ==
  LET b1 == transitionTo(b, state)
  IN  CASE state = "closed" ->
             [resetBuckets(b1) EXCEPT !.halfOpenSuccesses = 0,
                                      !.halfOpenActiveRequests = 0]
        [] state = "open" -> b1
        [] OTHER ->
             [b1 EXCEPT !.halfOpenSuccesses = 0, !.halfOpenActiveRequests = 0]

forceState(b, state, t) ==
  LET b1 == transitionTo(b, state)
  IN  CASE state = "closed" ->
             [resetBuckets(b1) EXCEPT !.halfOpenSuccesses = 0,
                                      !.halfOpenActiveRequests = 0]
        [] state = "open" -> [b1 EXCEPT !.lastFailureTime = t]
        [] OTHER ->
             [b1 EXCEPT !.halfOpenSuccesses = 0, !.halfOpenActiveRequests = 0]

\* breaker.forceState(state)
ForceState(state) ==
  /\ hist.forces < MaxForces
  /\ breaker' = forceState(breaker, state, now)
  /\ calls' = MarkStale(calls, breaker, breaker')
  /\ hist' = [hist EXCEPT
                !.forces = @ + 1,
                !.succSince = IF state = "half-open" THEN 0 ELSE @,
                !.forcedOpenAt = IF state = "open" THEN now ELSE Null]
  /\ last' = [Last("forceState", 0, breaker, NoError, FALSE)
                EXCEPT !.currentState = state]
  /\ UNCHANGED <<now, rcfg, retry, store, pure, extractors>>

\* ------------------------------------------------------------------ reset
\* Variant: the ring keeps its counts.
reset_KeepsBuckets(b) ==
  [b EXCEPT !.state = "closed",
            !.lastFailureTime = Null,
            !.lastSuccessTime = Null,
            !.halfOpenSuccesses = 0,
            !.halfOpenActiveRequests = 0]

\* reset() writes the fields directly: no transitionTo, no observer.
reset(b) ==
  [resetBuckets([b EXCEPT !.state = "closed"])
     EXCEPT !.lastFailureTime = Null,
            !.lastSuccessTime = Null,
            !.halfOpenSuccesses = 0,
            !.halfOpenActiveRequests = 0]

\* breaker.reset()
Reset ==
  /\ hist.forces < MaxForces
  /\ breaker' = reset(breaker)
  /\ calls' = MarkStale(calls, breaker, breaker')
  /\ hist' = [hist EXCEPT !.forces = @ + 1,
                         !.succSince = SuccSince(breaker, breaker', FALSE),
                         !.forcedOpenAt = Null]
  /\ last' = Last("reset", 0, breaker, NoError, FALSE)
  /\ UNCHANGED <<now, rcfg, retry, store, pure, extractors>>

\* ------------------------------------------------------ throwing observers
\* onOpen, onClose and onHalfOpen are called by transitionTo after the fields
\* are written; an observer that throws cuts the caller short at that point.
ObserverError == [name |-> "ObserverError", message |-> "observer threw"]

\* An observer was called between the two values of the breaker.
observerCalled(before, after) == before.state # after.state

\* recordSuccess when the observer of its transition throws: a transition to
\* closed skips the evaluateState that follows it.
recordSuccessObserverThrows(b, t) ==
  LET b1 == getCurrentBucket([b EXCEPT !.lastSuccessTime = t], t)
      i  == bucketIndexAt(b, t)
      b2 == [b1 EXCEPT !.buckets[i].success = @ + 1]
  IN  IF b2.state = "half-open"
           /\ b2.halfOpenSuccesses + 1 >= b2.config.successThreshold
        THEN transitionTo([b2 EXCEPT !.halfOpenSuccesses = @ + 1], "closed")
        ELSE recordSuccess(b, t)

\* execute from the settling of fn on, when an observer called by the
\* recording throws: after a success the catch block records a failure as
\* well; the finally block runs on both paths.
executeOutcomeObserverThrows(b, t, currentState, resolved) ==
  IF resolved
    THEN release(recordFailure(recordSuccessObserverThrows(b, t), t),
                 currentState)
    ELSE release(recordFailure(b, t), currentState)

\* breaker.getState() whose transition to half-open calls a throwing
\* onHalfOpen: the finally of checkStateTransition lowers the flag.
GetStateObserverThrows ==
  /\ observerCalled(breaker, checkStateTransition(breaker, now))
  /\ breaker' = checkStateTransition(breaker, now)
  /\ hist' = [hist EXCEPT !.succSince = SuccSince(breaker, breaker', FALSE)]
  /\ last' = Last("getState", 0, breaker, ObserverError, FALSE)
  /\ UNCHANGED <<now, calls, rcfg, retry, store, pure, extractors>>

\* breaker.execute(fn) whose getState() throws: the call fails before the
\* admission test, fn is not invoked.
ExecuteObserverThrows(c) ==
  /\ calls[c].pc = "idle"
  /\ observerCalled(breaker, checkStateTransition(breaker, now))
  /\ breaker' = checkStateTransition(breaker, now)
  /\ hist' = [hist EXCEPT !.succSince = SuccSince(breaker, breaker', FALSE)]
  /\ last' = Last("executeThrows", c, breaker, ObserverError, FALSE)
  /\ UNCHANGED <<now, calls, rcfg, retry, store, pure, extractors>>

\* The operation of caller c resolves and the observer called by
\* recordSuccess throws.
ResolveObserverThrows(c) ==
  /\ calls[c].pc = "awaiting"
  /\ observerCalled(breaker, recordSuccessObserverThrows(breaker, now))
  /\ breaker' = executeOutcomeObserverThrows(breaker, now,
                                             calls[c].currentState, TRUE)
  /\ calls' = MarkStale([calls EXCEPT ![c] = IdleCall], breaker, breaker')
  /\ hist' = [hist EXCEPT !.records = @ + 2,
                         !.succSince = SuccSince(breaker, breaker', TRUE)]
  /\ last' = [Last("resolveThrows", c, breaker, ObserverError, FALSE)
                EXCEPT !.currentState = calls[c].currentState,
                       !.stale = calls[c].stale]
  /\ UNCHANGED <<now, rcfg, retry, store, pure, extractors>>

\* The operation of caller c rejects and the observer called by
\* recordFailure throws: its exception replaces the operation's.
RejectObserverThrows(c) ==
  /\ calls[c].pc = "awaiting"
  /\ observerCalled(breaker, recordFailure(breaker, now))
  /\ breaker' = executeOutcomeObserverThrows(breaker, now,
                                             calls[c].currentState, FALSE)
  /\ calls' = MarkStale([calls EXCEPT ![c] = IdleCall], breaker, breaker')
  /\ hist' = [hist EXCEPT !.records = @ + 1,
                         !.succSince = SuccSince(breaker, breaker', FALSE)]
  /\ last' = [Last("rejectThrows", c, breaker, ObserverError, FALSE)
                EXCEPT !.currentState = calls[c].currentState,
                       !.stale = calls[c].stale]
  /\ UNCHANGED <<now, rcfg, retry, store, pure, extractors>>


\* ============================================================ state store
\* Objects live on a heap and are held by reference: a CircuitBreakerState
\* object holds its scalar fields and the references of its bucket objects.
\* The heap grows by one object, and by its buckets, with every allocation.
CircuitIds == {"circuit-1", "circuit-2"}
NoRef == 0

NoObject ==
  [state |-> "none", buckets |-> <<>>, lastFailureTime |-> Null,
   lastSuccessTime |-> Null, halfOpenSuccesses |-> 0,
   halfOpenActiveRequests |-> 0]

\* new: the next free reference is taken by an object with the scalar fields
\* of obj and fresh bucket objects holding the values bucketValues.
allocate(st, obj, bucketValues) ==
  LET refs == [i \in 1 .. Len(bucketValues) |-> Len(st.bheap) + i]
  IN  [st EXCEPT !.next = @ + 1,
                 !.heap = Append(@, [obj EXCEPT !.buckets = refs]),
                 !.bheap = @ \o bucketValues]

\* createInitialState(bucketCount): a new closed state with zeroed buckets.
createInitialState(st, bucketCount) ==
  allocate(st, [NoObject EXCEPT !.state = "closed"],
           [i \in 1 .. bucketCount |-> EmptyBucket])

\* InMemoryStateStore.setState: the map entry becomes a new object with the
\* scalar fields of the argument and a copy of each of its buckets.
storeSetState(st, circuitId, ref) ==
  LET copied == allocate(st, st.heap[ref],
                         [i \in 1 .. Len(st.heap[ref].buckets) |->
                            st.bheap[st.heap[ref].buckets[i]]])
  IN  [copied EXCEPT !.states[circuitId] = copied.next]

\* InMemoryStateStore.getState: this.states.get(circuitId) ?? null, the
\* object of the map itself.
storeGetState(st, circuitId) == st.states[circuitId]

storeDeleteState(st, circuitId) == [st EXCEPT !.states[circuitId] = NoRef]

storeClear(st) == [st EXCEPT !.states = [id \in CircuitIds |-> NoRef]]

getCircuitIds(st) == {id \in CircuitIds : st.states[id] # NoRef}

\* What a reader of the object ref sees: its fields and its buckets' fields.
stateValue(st, ref) ==
  IF ref = NoRef THEN NoObject
  ELSE [st.heap[ref] EXCEPT
          !.buckets = [i \in 1 .. Len(st.heap[ref].buckets) |->
                         st.bheap[st.heap[ref].buckets[i]]]]

StoreInit ==
  store = [next   |-> 0,
           heap   |-> <<>>,
           bheap  |-> <<>>,
           states |-> [id \in CircuitIds |-> NoRef],
           held   |-> [k \in Callers |-> NoRef],
           op     |-> "new"]

\* A client makes a state object: const state = createInitialState(n).
CreateState(k) ==
  /\ store.next < MaxObjects
  /\ store' = [createInitialState(store, StoreBucketCount) EXCEPT
                 !.held[k] = store.next + 1, !.op = "create"]
  /\ UNCHANGED <<breaker, now, calls, hist, last, rcfg, retry, pure, extractors>>

\* A client writes a field of the object it holds: state.state = 'open'.
MutateState(k) ==
  /\ store.held[k] # NoRef
  /\ \E v \in {"closed", "open"} :
       /\ store.heap[store.held[k]].state # v
       /\ store' = [store EXCEPT !.heap[store.held[k]].state = v,
                                 !.op = "mutate"]
  /\ UNCHANGED <<breaker, now, calls, hist, last, rcfg, retry, pure, extractors>>

\* A client writes a field of a bucket of the object it holds:
\* state.buckets[0].success = 5.
MutateBucket(k) ==
  /\ store.held[k] # NoRef
  /\ \E v \in {5, 100} :
       LET b == store.heap[store.held[k]].buckets[1]
       IN  /\ store.bheap[b].success # v
           /\ store' = [store EXCEPT !.bheap[b].success = v, !.op = "mutate"]
  /\ UNCHANGED <<breaker, now, calls, hist, last, rcfg, retry, pure, extractors>>

\* await store.setState(circuitId, state)
StoreSetState(k, circuitId) ==
  /\ store.held[k] # NoRef
  /\ store.next < MaxObjects
  /\ store' = [storeSetState(store, circuitId, store.held[k]) EXCEPT
                 !.op = "setState"]
  /\ UNCHANGED <<breaker, now, calls, hist, last, rcfg, retry, pure, extractors>>

\* const state = await store.getState(circuitId)
StoreGetState(k, circuitId) ==
  /\ store' = [store EXCEPT !.held[k] = storeGetState(store, circuitId),
                            !.op = "getState"]
  /\ store'.held # store.held
  /\ UNCHANGED <<breaker, now, calls, hist, last, rcfg, retry, pure, extractors>>

\* await store.deleteState(circuitId)
StoreDeleteState(circuitId) ==
  /\ circuitId \in getCircuitIds(store)
  /\ store' = [storeDeleteState(store, circuitId) EXCEPT !.op = "deleteState"]
  /\ UNCHANGED <<breaker, now, calls, hist, last, rcfg, retry, pure, extractors>>

\* store.clear()
StoreClear ==
  /\ getCircuitIds(store) # {}
  /\ store' = [storeClear(store) EXCEPT !.op = "clear"]
  /\ UNCHANGED <<breaker, now, calls, hist, last, rcfg, retry, pure, extractors>>

StoreNext ==
  \/ \E k \in Callers : CreateState(k)
  \/ \E k \in Callers : MutateState(k)
  \/ \E k \in Callers : MutateBucket(k)
  \/ \E k \in Callers, id \in CircuitIds : StoreSetState(k, id)
  \/ \E k \in Callers, id \in CircuitIds : StoreGetState(k, id)
  \/ \E id \in CircuitIds : StoreDeleteState(id)
  \/ StoreClear

\* ===================================================== retry orchestrator
DEFAULT_RETRY_CONFIG ==
  [maxAttempts |-> 3, initialDelay |-> 1000, maxDelay |-> 30000,
   backoffStrategy |-> "exponential", backoffMultiplier |-> 2, jitter |-> "full"]

RECURSIVE Pow(_, _)
Pow(x, n) == IF n = 0 THEN 1 ELSE x * Pow(x, n - 1)

\* Variant: the delay is not capped.
exponentialBackoff_NoCap(attempt, config) ==
  config.initialDelay * Pow(config.multiplier, attempt)

exponentialBackoff(attempt, config) ==
  Min(config.initialDelay * Pow(config.multiplier, attempt), config.maxDelay)

linearBackoff(attempt, config) ==
  Min(config.initialDelay + config.multiplier * attempt * config.initialDelay,
      config.maxDelay)

constantBackoff(attempt, config) == config.initialDelay

calculateBackoff(attempt, config) ==
  CASE config.strategy = "exponential" -> exponentialBackoff(attempt, config)
    [] config.strategy = "linear"      -> linearBackoff(attempt, config)
    [] config.strategy = "constant"    -> constantBackoff(attempt, config)
    [] OTHER                           -> exponentialBackoff(attempt, config)

\* Math.random() is a nondeterministic choice: each operator below is the set
\* of values the function can return.
randomBetween(min, max) == min .. max

\* floor(Math.random() * (max - min) + min), Math.random() in [0, 1).
floorRandomFloatBetween(min, max) ==
  IF max > min THEN min .. (max - 1) ELSE max .. min

fullJitter(baseDelay) == randomBetween(0, baseDelay)

equalJitter(baseDelay) ==
  LET half == baseDelay \div 2
  IN  {half + r : r \in randomBetween(0, half)}

\* Variant: the jittered delay is not capped.
decorrelatedJitter_NoCap(previousDelay, initialDelay, maxDelay) ==
  floorRandomFloatBetween(initialDelay, previousDelay * 3)

decorrelatedJitter(previousDelay, initialDelay, maxDelay) ==
  {Min(j, maxDelay) : j \in floorRandomFloatBetween(initialDelay, previousDelay * 3)}

noJitter(baseDelay) == {baseDelay}

applyJitter(baseDelay, strategy, options) ==
  CASE strategy = "full"         -> fullJitter(baseDelay)
    [] strategy = "equal"        -> equalJitter(baseDelay)
    [] strategy = "decorrelated" ->
         decorrelatedJitter(options.previousDelay, options.initialDelay,
                            options.maxDelay)
    [] strategy = "none"         -> noJitter(baseDelay)
    [] OTHER                     -> fullJitter(baseDelay)

\* calculateDelay: the delays the next sleep can take.
calculateDelay(attempt, previousDelay, config) ==
  LET baseDelay == calculateBackoff(attempt,
                     [initialDelay |-> config.initialDelay,
                      maxDelay     |-> config.maxDelay,
                      multiplier   |-> config.backoffMultiplier,
                      strategy     |-> config.backoffStrategy])
  IN  applyJitter(baseDelay, config.jitter,
                  [previousDelay |-> previousDelay,
                   initialDelay  |-> config.initialDelay,
                   maxDelay      |-> config.maxDelay])

\* ------------------------------------------------------ error extraction
\* A thrown value, by the properties the extractor reads.  kind is
\* "primitive" (a string, a number, null, undefined), "Error" (instanceof
\* Error) or "object"; 0 stands for an absent or zero number and "" for an
\* absent or empty string (both falsy where the code tests them).
PlainError ==
  [kind |-> "Error", isAxiosError |-> FALSE, name |-> "Error",
   message |-> "boom", statusCode |-> 0, status |-> 0, code |-> "",
   causeCode |-> "", type |-> "", hasResponse |-> FALSE, responseStatus |-> 0,
   responseStatusCode |-> 0, bodyMessage |-> "", hasRequest |-> FALSE]

RETRYABLE_NETWORK_CODES ==
  {"ECONNRESET", "ECONNREFUSED", "ETIMEDOUT", "ECONNABORTED", "ENETUNREACH",
   "EHOSTUNREACH", "EPIPE", "EAI_AGAIN", "ENOTFOUND", "ERR_NETWORK",
   "UND_ERR_CONNECT_TIMEOUT", "UND_ERR_SOCKET"}

RETRYABLE_STATUS_CODES == {408, 429, 500, 502, 503, 504}

\* code.startsWith('UND_ERR_'), over the codes the model uses.
startsWithUndErr(code) ==
  code \in {"UND_ERR_CONNECT_TIMEOUT", "UND_ERR_SOCKET", "UND_ERR_ABORTED"}

\* message.includes('fetch') || message.includes('network'), over the
\* messages the model uses.
mentionsFetchOrNetwork(message) ==
  message \in {"fetch failed", "Failed to fetch", "network error"}

detectClientType(error) ==
  IF error.kind = "primitive" THEN "generic"
  ELSE IF error.isAxiosError THEN "axios"
  ELSE IF error.name \in {"HTTPError", "RequestError"} THEN "got"
  ELSE IF startsWithUndErr(error.causeCode) THEN "undici"
  ELSE IF error.name = "TypeError" /\ mentionsFetchOrNetwork(error.message)
    THEN "fetch"
  ELSE IF error.type \in {"system", "body-timeout", "request-timeout"}
    THEN "node-fetch"
  ELSE "generic"

\* Variant: the status code is looked at first.
classifyError_StatusFirst(statusCode, errorCode) ==
  IF statusCode = 429 THEN "rate-limit"
  ELSE IF statusCode \in {401, 403} THEN "authentication"
  ELSE IF statusCode = 404 THEN "not-found"
  ELSE IF statusCode \in {400, 422} THEN "validation"
  ELSE IF statusCode >= 500 THEN "server"
  ELSE IF statusCode >= 400 THEN "client"
  ELSE IF errorCode \in {"ETIMEDOUT", "ECONNABORTED", "UND_ERR_CONNECT_TIMEOUT"}
    THEN "timeout"
  ELSE IF errorCode \in RETRYABLE_NETWORK_CODES THEN "network"
  ELSE IF errorCode \in {"ERR_CANCELED", "ABORT_ERR"} THEN "cancelled"
  ELSE "unknown"

classifyError(statusCode, errorCode) ==
  IF errorCode \in {"ETIMEDOUT", "ECONNABORTED", "UND_ERR_CONNECT_TIMEOUT"}
    THEN "timeout"
  ELSE IF errorCode \in RETRYABLE_NETWORK_CODES THEN "network"
  ELSE IF errorCode \in {"ERR_CANCELED", "ABORT_ERR"} THEN "cancelled"
  ELSE IF statusCode = 0 THEN "unknown"
  ELSE IF statusCode = 429 THEN "rate-limit"
  ELSE IF statusCode \in {401, 403} THEN "authentication"
  ELSE IF statusCode = 404 THEN "not-found"
  ELSE IF statusCode \in {400, 422} THEN "validation"
  ELSE IF statusCode >= 500 THEN "server"
  ELSE IF statusCode >= 400 THEN "client"
  ELSE "unknown"

\* Variant: an unclassified error counts as retryable.
isRetryableError_Unknown(classification, statusCode) ==
  \/ classification \in {"network", "timeout", "server", "rate-limit", "unknown"}
  \/ statusCode \in RETRYABLE_STATUS_CODES

\* Variant: the status code is not looked at.
isRetryableError_ClassificationOnly(classification, statusCode) ==
  classification \in {"network", "timeout", "server", "rate-limit"}

isRetryableError(classification, statusCode) ==
  \/ classification \in {"network", "timeout", "server", "rate-limit"}
  \/ (statusCode # 0 /\ statusCode \in RETRYABLE_STATUS_CODES)

StandardizedError(message, statusCode, code, clientType) ==
  [message        |-> message,
   statusCode     |-> statusCode,
   code           |-> code,
   classification |-> classifyError(statusCode, code),
   isRetryable    |-> isRetryableError(classifyError(statusCode, code), statusCode),
   clientType     |-> clientType]

Or(a, b) == IF a # 0 THEN a ELSE b
OrStr(a, b) == IF a # "" THEN a ELSE b

extractAxiosError(error) ==
  LET code == error.code
      noResponse ==
        CASE code \in {"ECONNABORTED", "ETIMEDOUT"} -> <<"Request timeout", 408>>
          [] code = "ECONNREFUSED" -> <<"Connection refused", 503>>
          [] code = "ECONNRESET"   -> <<"Connection reset", 503>>
          [] code = "ENOTFOUND"    -> <<"DNS lookup failed", 503>>
          [] code = "ERR_NETWORK"  -> <<"Network error", 503>>
          [] OTHER                 -> <<"No response received", 503>>
  IN  IF error.hasResponse
        THEN StandardizedError(
               OrStr(error.bodyMessage, OrStr(error.message, "Unknown error")),
               error.responseStatus, code, "axios")
      ELSE IF error.hasRequest
        THEN StandardizedError(noResponse[1], noResponse[2], code, "axios")
      ELSE IF error.name = "AbortError" \/ code = "ERR_CANCELED"
        THEN StandardizedError("Request cancelled", 499, "ERR_CANCELED", "axios")
      ELSE StandardizedError(OrStr(error.message, "Unknown error"), 0, code,
                             "axios")

extractFetchError(error) ==
  StandardizedError(OrStr(error.message, "Fetch error"), 0, error.causeCode,
                    "fetch")

extractGotError(error) ==
  IF error.hasResponse
    THEN StandardizedError(
           OrStr(error.bodyMessage, OrStr(error.message, "Got error")),
           error.responseStatusCode, error.code, "got")
    ELSE StandardizedError(OrStr(error.message, "Got error"), 0, error.code,
                           "got")

extractUndiciError(error) ==
  StandardizedError(OrStr(error.message, "Undici error"), 0, error.causeCode,
                    "undici")

extractNodeFetchError(error) ==
  StandardizedError(OrStr(error.message, "Node-fetch error"),
                    IF error.type \in {"request-timeout", "body-timeout"}
                      THEN 408 ELSE 0,
                    error.code, "node-fetch")

extractGenericError(error) ==
  CASE error.kind = "Error" ->
         StandardizedError(error.message, Or(error.statusCode, error.status),
                           error.code, "generic")
    [] error.kind = "object" ->
         StandardizedError(OrStr(error.message, "Unknown error"),
                           Or(error.statusCode, error.status), error.code,
                           "generic")
    [] OTHER ->
         [message |-> error.message, statusCode |-> 0, code |-> "",
          classification |-> "unknown", isRetryable |-> FALSE,
          clientType |-> "generic"]

extractError(error) ==
  CASE detectClientType(error) = "axios"      -> extractAxiosError(error)
    [] detectClientType(error) = "fetch"      -> extractFetchError(error)
    [] detectClientType(error) = "got"        -> extractGotError(error)
    [] detectClientType(error) = "undici"     -> extractUndiciError(error)
    [] detectClientType(error) = "node-fetch" -> extractNodeFetchError(error)
    [] OTHER                                  -> extractGenericError(error)

\* Variant: every error is retried.
defaultRetryPredicate_Always(error) == TRUE

defaultRetryPredicate(error) == extractError(error).isRetryable

\* What the operation of a retry call throws: the string 'boom', Error('boom'),
\* an Error carrying a 503, an Error carrying a 404, a reset connection.
FnThrows ==
  {[PlainError EXCEPT !.kind = "primitive", !.name = ""],
   PlainError,
   [PlainError EXCEPT !.statusCode = 503],
   [PlainError EXCEPT !.kind = "object", !.name = "", !.status = 404],
   [PlainError EXCEPT !.code = "ECONNRESET"]}

\* The options a retry call is made with (resolveConfig adds nothing to them:
\* every field is given), the function called (retry or retryWithSignal) and
\* the operation: fn rejects until its invocation number succeedOn resolves,
\* throwing a value of the shape throws.  shouldRetry is "given" when the
\* options carry a predicate and "default" when they carry none.
RetryCalls ==
  {r \in
  [kind              : {"retry", "retryWithSignal"},
   maxAttempts       : 1 .. MaxAttemptsBound,
   initialDelay      : {1},
   maxDelay          : {3},
   backoffStrategy   : {"exponential", "constant"},
   backoffMultiplier : {2},
   jitter            : {"none", "full", "decorrelated"},
   timeout           : {0, 50},
   succeedOn         : 1 .. MaxAttemptsBound + 1,
   shouldRetry       : {"given", "default"},
   throws            : FnThrows] :
     r.shouldRetry = "given" => r.throws = PlainError}

\* resolveConfig: what config.shouldRetry(error, attempt) can do.  A given
\* predicate returns either value or throws; with none given the predicate
\* is defaultRetryPredicate.
resolveShouldRetry(options, error) ==
  IF options.shouldRetry = "default"
    THEN {IF defaultRetryPredicate(error) THEN "true" ELSE "false"}
    ELSE {"true", "false", "throw"}

\* Errors are objects: the error thrown by invocation n of fn is a fresh one.
FnError(n)     == [name |-> "Error", id |-> n]
AbortError     == [name |-> "AbortError", id |-> 0]
PredicateError == [name |-> "PredicateError", id |-> 0]
CallbackError  == [name |-> "CallbackError", id |-> 0]
Undefined      == [name |-> "undefined", id |-> 0]

\* What the retry call has done so far, in order.  ev names the callee (fn,
\* shouldRetry, onRetry, onFailure, sleep) or what came back (resolved,
\* rejected, threw); a is the attempt argument (fn's invocation number for
\* fn, resolved and rejected), d the delay or the predicate's verdict (1, 0,
\* -1 when it throws), e the id of the error passed or raised.
Event(ev, a, d, e) == [ev |-> ev, a |-> a, d |-> d, e |-> e]

RetryIdle ==
  [pc |-> "idle", attempt |-> 0, lastError |-> Undefined, previousDelay |-> 0,
   result |-> 0, thrown |-> Undefined, aborted |-> FALSE, timer |-> "none",
   events |-> <<>>]

Throw(s, error) == [s EXCEPT !.pc = "thrown", !.thrown = error]

\* The callee of the last event threw instead of returning.
Threw(s) == [s EXCEPT !.events = Append(@, Event("threw", 0, 0, 0))]

\* Variant: the signal is not looked at before an attempt.
loopHead_NoSignalCheck(s, config) ==
  IF ~(s.attempt < config.maxAttempts) THEN Throw(s, s.lastError)
  ELSE [s EXCEPT !.pc = "awaitFn",
                 !.timer = IF config.timeout # 0 THEN "armed" ELSE "none",
                 !.events = Append(@, Event("fn", s.attempt + 1, 0, 0))]

\* The head of the for loop: the bound on attempt, the signal check of
\* retryWithSignal, then executeWithTimeout up to its await of fn().
loopHead(s, config) ==
  IF ~(s.attempt < config.maxAttempts) THEN Throw(s, s.lastError)
  ELSE IF config.kind = "retryWithSignal" /\ s.aborted THEN Throw(s, AbortError)
  ELSE [s EXCEPT !.pc = "awaitFn",
                 !.timer = IF config.timeout # 0 THEN "armed" ELSE "none",
                 !.events = Append(@, Event("fn", s.attempt + 1, 0, 0))]

\* executeWithTimeout's finally: clearTimeout.
clearTimer(s) == [s EXCEPT !.timer = IF @ = "none" THEN "none" ELSE "cleared"]

\* Variant: the result is kept but the loop is not left.
onResolved_NoReturn(s, value) ==
  [clearTimer(s) EXCEPT !.pc = "sleeping", !.result = value]

\* fn resolved: return result.
onResolved(s, value) ==
  [clearTimer(s) EXCEPT !.pc = "returned", !.result = value]

\* Variant: only the first error is captured.
captureError_KeepFirst(s, error) ==
  IF s.lastError = Undefined THEN [s EXCEPT !.lastError = error] ELSE s

captureError(s, error) == [s EXCEPT !.lastError = error]

\* Variant: the catch block never sees the last attempt.
hasMoreAttempts_Always(attempt, config) == TRUE

\* Variant: the last retry is given up (off by one).
hasMoreAttempts_OffByOne(attempt, config) == attempt < config.maxAttempts - 2

hasMoreAttempts(attempt, config) == attempt < config.maxAttempts - 1

\* Variant: && for ||.
shouldStop_And(shouldRetry, hasMore) == ~shouldRetry /\ ~hasMore

shouldStop(shouldRetry, hasMore) == ~shouldRetry \/ ~hasMore

\* Variant: an exception of onFailure or onRetry is swallowed.
catchBlock_SwallowsCallback(s, config, error, verdict, delay, throwing) ==
  LET s0 == clearTimer(s)
  IN
  IF config.kind = "retryWithSignal" /\ s0.aborted THEN Throw(s0, AbortError)
  ELSE
  LET s1 == captureError(s0, error)
      s2 == [s1 EXCEPT !.events = Append(@,
               Event("shouldRetry", s.attempt,
                     CASE verdict = "true" -> 1 [] verdict = "false" -> 0
                       [] OTHER -> -1,
                     error.id))]
  IN
  IF verdict = "throw" THEN Throw(Threw(s2), PredicateError)
  ELSE IF shouldStop(verdict = "true", hasMoreAttempts(s.attempt, config))
    THEN LET s3 == [s2 EXCEPT !.events = Append(@,
                      Event("onFailure", s.attempt + 1, 0, error.id))]
         IN  IF throwing THEN Throw(Threw(s3), s3.lastError)
             ELSE Throw(s3, s3.lastError)
    ELSE LET s3 == [s2 EXCEPT !.previousDelay = delay,
                              !.events = Append(@,
                                Event("onRetry", s.attempt + 1, delay, error.id))]
         IN  [(IF throwing THEN Threw(s3) ELSE s3) EXCEPT
                 !.pc = "sleeping",
                 !.events = Append(@, Event("sleep", 0, delay, 0))]

\* The catch block, up to the sleep.  verdict is what config.shouldRetry does
\* ("true", "false" or "throw"), delay the value calculateDelay returned,
\* throwing whether the callback invoked (onFailure or onRetry) throws.
catchBlock(s, config, error, verdict, delay, throwing) ==
  LET s0 == clearTimer(s)
  IN
  IF config.kind = "retryWithSignal" /\ s0.aborted THEN Throw(s0, AbortError)
  ELSE
  LET s1 == captureError(s0, error)
      s2 == [s1 EXCEPT !.events = Append(@,
               Event("shouldRetry", s.attempt,
                     CASE verdict = "true" -> 1 [] verdict = "false" -> 0
                       [] OTHER -> -1,
                     error.id))]
  IN
  IF verdict = "throw" THEN Throw(Threw(s2), PredicateError)
  ELSE IF shouldStop(verdict = "true", hasMoreAttempts(s.attempt, config))
    THEN LET s3 == [s2 EXCEPT !.events = Append(@,
                      Event("onFailure", s.attempt + 1, 0, error.id))]
         IN  IF throwing THEN Throw(Threw(s3), CallbackError)
             ELSE Throw(s3, s3.lastError)
    ELSE LET s3 == [s2 EXCEPT !.previousDelay = delay,
                              !.events = Append(@,
                                Event("onRetry", s.attempt + 1, delay, error.id))]
         IN  IF throwing THEN Throw(Threw(s3), CallbackError)
             ELSE [s3 EXCEPT !.pc = "sleeping",
                             !.events = Append(@, Event("sleep", 0, delay, 0))]

\* Variant: the loop forgets attempt++.
afterSleep_SameAttempt(s, config) == loopHead(s, config)

\* The sleep is over: attempt++ and the head of the loop.
afterSleep(s, config) == loopHead([s EXCEPT !.attempt = @ + 1], config)

RetryInit ==
  /\ rcfg \in RetryCalls
  /\ retry = [RetryIdle EXCEPT !.pc = "called"]

\* A breaker that no retry behaviour touches.
BreakerIdle ==
  /\ breaker = CircuitBreaker(DEFAULT_CIRCUIT_CONFIG)
  /\ NoCalls

\* retry(fn, options) / retryWithSignal(fn, signal, options) is called: the
\* locals are set and the loop runs to the first await.
RetryCall ==
  /\ retry.pc = "called"
  /\ retry' = loopHead([retry EXCEPT !.previousDelay = rcfg.initialDelay], rcfg)
  /\ UNCHANGED <<rcfg, breaker, now, calls, hist, last, store, pure, extractors>>

\* The caller aborts the signal passed to retryWithSignal; a sleep in
\* progress is rejected by sleepWithAbort's listener.
Abort ==
  /\ rcfg.kind = "retryWithSignal"
  /\ ~retry.aborted
  /\ retry.pc \in {"called", "awaitFn", "sleeping"}
  /\ retry' = IF retry.pc = "sleeping"
                THEN Throw([retry EXCEPT !.aborted = TRUE], AbortError)
                ELSE [retry EXCEPT !.aborted = TRUE]
  /\ UNCHANGED <<rcfg, breaker, now, calls, hist, last, store, pure, extractors>>

\* executeWithTimeout's timer fires: controller.abort(), which nothing
\* observes (fn gets no signal and is not raced against the timer).
TimerFires ==
  /\ retry.pc = "awaitFn"
  /\ retry.timer = "armed"
  /\ retry' = [retry EXCEPT !.timer = "fired"]
  /\ UNCHANGED <<rcfg, breaker, now, calls, hist, last, store, pure, extractors>>

FnInvocations(s) == Len(SelectSeq(s.events, LAMBDA x : x.ev = "fn"))

\* The invocation of fn in progress resolves.
FnResolves ==
  /\ retry.pc = "awaitFn"
  /\ FnInvocations(retry) >= rcfg.succeedOn
  /\ retry' = onResolved(
                [retry EXCEPT !.events = Append(@,
                   Event("resolved", FnInvocations(retry), 0, 0))],
                FnInvocations(retry))
  /\ UNCHANGED <<rcfg, breaker, now, calls, hist, last, store, pure, extractors>>

\* The invocation of fn in progress rejects: the catch block runs.
FnRejects ==
  /\ retry.pc = "awaitFn"
  /\ FnInvocations(retry) < rcfg.succeedOn
  /\ \E verdict \in resolveShouldRetry(rcfg, rcfg.throws),
        throwing \in BOOLEAN :
       \E delay \in calculateDelay(retry.attempt, retry.previousDelay, rcfg) :
         retry' = catchBlock(
                    [retry EXCEPT !.events = Append(@,
                       Event("rejected", FnInvocations(retry), 0,
                             FnInvocations(retry)))],
                    rcfg, FnError(FnInvocations(retry)), verdict, delay, throwing)
  /\ UNCHANGED <<rcfg, breaker, now, calls, hist, last, store, pure, extractors>>

\* The timer of sleep / sleepWithAbort fires.
SleepEnds ==
  /\ retry.pc = "sleeping"
  /\ retry' = afterSleep(retry, rcfg)
  /\ UNCHANGED <<rcfg, breaker, now, calls, hist, last, store, pure, extractors>>

RetryNext ==
  \/ RetryCall
  \/ Abort
  \/ TimerFires
  \/ FnResolves
  \/ FnRejects
  \/ SleepEnds

\* --------------------------------- retry(() => breaker.execute(operation))
\* The error breaker.execute rejects with, as the predicate sees it: an Error
\* whose name is CircuitBreakerOpenError, with no status and no code.
breakerErrorShape(error) ==
  [PlainError EXCEPT !.name = error.name, !.message = error.message]

BreakerRejection(n) == [name |-> "CircuitBreakerOpenError", id |-> n]

\* fn() is called by the head of the loop: breaker.execute runs to its first
\* await.  An admitted call invokes the operation; a rejected one makes
\* fn's promise reject, and the catch block of retry runs.
invokeWrapped(s, b, t, config) ==
  IF s.pc # "awaitFn" THEN [retry |-> s, admission |-> admit(b, t), invoked |-> FALSE,
                            entered |-> FALSE]
  ELSE
  LET a == admit(b, t)
      n == FnInvocations(s)
  IN  IF a.error = NoError
        THEN [retry |-> [s EXCEPT !.events = Append(@, Event("operation", n, 0, 0))],
              admission |-> a, invoked |-> TRUE, entered |-> TRUE]
        ELSE [retry |->
                catchBlock(
                  [s EXCEPT !.events = Append(@, Event("breakerRejected", n, 0, n))],
                  config, BreakerRejection(n),
                  IF defaultRetryPredicate(breakerErrorShape(a.error))
                    THEN "true" ELSE "false",
                  config.initialDelay, FALSE),
              admission |-> a, invoked |-> FALSE, entered |-> TRUE]

\* The breaker's side of an invocation of the wrapped function by caller 1.
WrappedStep(w) ==
  /\ retry' = w.retry
  /\ breaker' = IF w.entered THEN w.admission.breaker ELSE breaker
  /\ calls' = IF w.invoked
                THEN [calls EXCEPT ![1] =
                        [pc |-> "awaiting",
                         currentState |-> w.admission.currentState,
                         stale |-> FALSE]]
                ELSE calls
  /\ hist' = [hist EXCEPT !.succSince = SuccSince(breaker, breaker', FALSE)]
  /\ last' = IF w.entered
               THEN [Last("execute", 1, breaker, w.admission.error, w.invoked)
                       EXCEPT !.currentState = w.admission.currentState]
               ELSE last

\* retry(() => breaker.execute(operation), { maxAttempts }) is called.
WrappedRetryCall ==
  /\ retry.pc = "called"
  /\ WrappedStep(invokeWrapped(
       loopHead([retry EXCEPT !.previousDelay = rcfg.initialDelay], rcfg),
       breaker, now, rcfg))
  /\ UNCHANGED <<now, rcfg, store, pure, extractors>>

\* The sleep between two attempts is over.
WrappedSleepEnds ==
  /\ retry.pc = "sleeping"
  /\ WrappedStep(invokeWrapped(afterSleep(retry, rcfg), breaker, now, rcfg))
  /\ UNCHANGED <<now, rcfg, store, pure, extractors>>

\* The operation resolves: execute records the success and resolves, and
\* retry returns.
WrappedResolves ==
  /\ retry.pc = "awaitFn"
  /\ calls[1].pc = "awaiting"
  /\ hist.records < MaxRecords
  /\ breaker' = release(recordSuccess(breaker, now), calls[1].currentState)
  /\ calls' = MarkStale([calls EXCEPT ![1] = IdleCall], breaker, breaker')
  /\ hist' = [hist EXCEPT !.records = @ + 1,
                         !.succSince = SuccSince(breaker, breaker', TRUE)]
  /\ last' = [Last("resolve", 1, breaker, NoError, FALSE)
                EXCEPT !.currentState = calls[1].currentState,
                       !.stale = calls[1].stale]
  /\ retry' = onResolved(
                [retry EXCEPT !.events = Append(@,
                   Event("resolved", FnInvocations(retry), 0, 0))],
                FnInvocations(retry))
  /\ UNCHANGED <<now, rcfg, store, pure, extractors>>

\* The operation rejects: execute records the failure and rethrows the
\* operation's error, and the catch block of retry runs on it.
WrappedRejects ==
  /\ retry.pc = "awaitFn"
  /\ calls[1].pc = "awaiting"
  /\ hist.records < MaxRecords
  /\ breaker' = release(recordFailure(breaker, now), calls[1].currentState)
  /\ calls' = MarkStale([calls EXCEPT ![1] = IdleCall], breaker, breaker')
  /\ hist' = [hist EXCEPT !.records = @ + 1,
                         !.succSince = SuccSince(breaker, breaker', FALSE)]
  /\ last' = [Last("reject", 1, breaker, OperationError, FALSE)
                EXCEPT !.currentState = calls[1].currentState,
                       !.stale = calls[1].stale]
  /\ \E delay \in calculateDelay(retry.attempt, retry.previousDelay, rcfg) :
       retry' = catchBlock(
                  [retry EXCEPT !.events = Append(@,
                     Event("rejected", FnInvocations(retry), 0,
                           FnInvocations(retry)))],
                  rcfg, FnError(FnInvocations(retry)),
                  IF defaultRetryPredicate(rcfg.throws) THEN "true" ELSE "false",
                  delay, FALSE)
  /\ UNCHANGED <<now, rcfg, store, pure, extractors>>

\* Pattern 3: retry with the default predicate around breaker.execute, the
\* breaker shared with the direct calls of the other callers.
WrappedNext ==
  \/ Tick
  \/ WrappedRetryCall
  \/ WrappedSleepEnds
  \/ WrappedResolves
  \/ WrappedRejects
  \/ Execute(2)
  \/ Resolve(2)
  \/ Reject(2)

WrappedInit ==
  /\ BreakerInit /\ StoreInit /\ NoPureCall
  /\ breaker.config.failureThreshold = 50
  /\ breaker.config.minimumRequests = 2
  /\ breaker.config.successThreshold = 2
  /\ breaker.config.halfOpenMaxRequests = 1
  /\ rcfg \in RetryCalls
  /\ rcfg.throws.kind = "Error"
  /\ rcfg.kind = "retry" /\ rcfg.shouldRetry = "default" /\ rcfg.timeout = 0
  /\ rcfg.succeedOn = 1 /\ rcfg.jitter = "none"
  /\ rcfg.backoffStrategy = "constant"
  /\ retry = [RetryIdle EXCEPT !.pc = "called"]

SpecWrapped == WrappedInit /\ [][WrappedNext]_vars

InitRetry == BreakerIdle /\ RetryInit /\ StoreInit /\ NoPureCall
SpecRetry == InitRetry /\ [][RetryNext]_vars

\* retry(fn, options) without a per-attempt timeout, run by the event loop:
\* the synchronous start runs, every invocation of fn settles, and the timer
\* of every sleep fires.
InitRetryLive ==
  /\ InitRetry
  /\ rcfg.kind = "retry"
  /\ rcfg.timeout = 0

RetryLiveNext ==
  \/ RetryCall
  \/ FnResolves
  \/ FnRejects
  \/ SleepEnds

SpecRetryLive ==
  /\ InitRetryLive
  /\ [][RetryLiveNext]_vars
  /\ WF_vars(RetryCall)
  /\ WF_vars(FnResolves)
  /\ WF_vars(FnRejects)
  /\ WF_vars(SleepEnds)

\* ------------------------------------------------------- specifications
\* No retry call is in progress while the breaker is exercised.
NoRetry ==
  /\ rcfg = [kind |-> "retry", maxAttempts |-> 1, initialDelay |-> 1,
             maxDelay |-> 3, backoffStrategy |-> "exponential",
             backoffMultiplier |-> 2, jitter |-> "none", timeout |-> 0,
             succeedOn |-> 1, shouldRetry |-> "given", throws |-> PlainError]
  /\ retry = RetryIdle

Init == BreakerInit /\ NoRetry /\ StoreInit /\ NoPureCall
Next == BreakerNext
Spec == Init /\ [][Next]_vars

\* The breaker driven through execute() and getState() only: every outcome
\* recorded is the outcome of an admitted call.
ExecuteNext ==
  \/ Tick
  \/ GetState
  \/ \E c \in Callers : Execute(c)
  \/ \E c \in Callers : Resolve(c)
  \/ \E c \in Callers : Reject(c)

SpecExecute == Init /\ [][ExecuteNext]_vars

\* The breaker driven by one caller through execute(), getState() and
\* forceState().
ForceNext ==
  \/ Tick
  \/ GetState
  \/ Execute(1)
  \/ Resolve(1)
  \/ Reject(1)
  \/ \E state \in {"closed", "open", "half-open"} : ForceState(state)

\* The breaker forceState is exercised on: new CircuitBreaker({
\* failureThreshold: 50, minimumRequests: 2, ..., halfOpenMaxRequests: 2 }).
ForceInit ==
  /\ Init
  /\ breaker.config.failureThreshold = 50
  /\ breaker.config.minimumRequests = 2
  /\ breaker.config.successThreshold = 2
  /\ breaker.config.halfOpenMaxRequests = 2

SpecForce == ForceInit /\ [][ForceNext]_vars

\* The breaker of the callback tests, with the three observers attached:
\* new CircuitBreaker({ failureThreshold: 50, minimumRequests: 2,
\* resetTimeout: 500, successThreshold: 2, halfOpenMaxRequests: 2,
\* onOpen, onClose, onHalfOpen }).
CallbackInit ==
  /\ breaker = CircuitBreaker(
       [failureThreshold |-> 50, minimumRequests |-> 2, rollingWindow |-> 1000,
        resetTimeout |-> 500, successThreshold |-> 2,
        halfOpenMaxRequests |-> 2, bucketCount |-> 1,
        onOpen |-> "function", onClose |-> "function",
        onHalfOpen |-> "function"])
  /\ NoCalls /\ NoRetry /\ StoreInit /\ NoPureCall

SpecCallbacks == CallbackInit /\ [][ForceNext]_vars

\* ------------------------------------------------- the ring and getMetrics
\* The breakers whose ring is observed: a window of one second cut into two
\* buckets of 500 ms, or into three of 333 ms (1000 is no multiple of 3).
MetricsOptions ==
  [failureThreshold    : {50},
   minimumRequests     : {3},
   rollingWindow       : {1000},
   resetTimeout        : {500},
   successThreshold    : {1},
   halfOpenMaxRequests : {1},
   bucketCount         : {2, 3}]

\* The clock steps between two calls: to the last millisecond of the bucket
\* the breaker was constructed in (of 333 ms and of 500 ms), one bucket of
\* 500 ms, two buckets of 333 ms and a millisecond.
MetricsSteps == {312, 499, 500, 667}

MetricsInit ==
  /\ \E options \in MetricsOptions : breaker = CircuitBreaker(options)
  /\ NoCalls /\ NoRetry /\ StoreInit /\ NoExtractors
  /\ pure = [fn |-> "getMetrics", called |-> FALSE, log |-> <<>>]

Elapse ==
  /\ \E d \in MetricsSteps :
       /\ now + d <= StartTime + MaxElapsed
       /\ now' = now + d
  /\ pure' = [fn |-> "getMetrics", called |-> FALSE, log |-> pure.log]
  /\ UNCHANGED <<breaker, calls, hist, last, rcfg, retry, store, extractors>>

\* breaker.recordSuccess() or breaker.recordFailure().  History: the log keeps
\* each outcome with the time it was recorded at, the bucket it went to and
\* that bucket's timestamp then; closing the breaker clears the ring and the
\* log with it.
RecordOutcome(success) ==
  /\ hist.records < MaxRecords
  /\ breaker' = IF success THEN recordSuccess(breaker, now)
                           ELSE recordFailure(breaker, now)
  /\ hist' = [hist EXCEPT !.records = @ + 1]
  /\ LET i == bucketIndexAt(breaker, now)
         entry == [t |-> now, success |-> success, bucket |-> i,
                   stamp |-> getCurrentBucket(breaker, now).buckets[i].timestamp]
     IN  pure' = [fn |-> "getMetrics", called |-> FALSE,
                  log |-> IF breaker.state # "closed" /\ breaker'.state = "closed"
                            THEN <<>>
                            ELSE Append(pure.log, entry)]
  /\ UNCHANGED <<now, calls, last, rcfg, retry, store, extractors>>

\* breaker.getMetrics(): the sums over the live buckets, then getState().
GetMetrics ==
  /\ ~pure.called
  /\ pure' = [fn |-> "getMetrics", called |-> TRUE, log |-> pure.log,
              result |-> [windowMetrics(breaker, now) EXCEPT
                            !.state = checkStateTransition(breaker, now).state]]
  /\ breaker' = checkStateTransition(breaker, now)
  /\ UNCHANGED <<now, calls, hist, last, rcfg, retry, store, extractors>>

MetricsNext ==
  \/ Elapse
  \/ \E success \in BOOLEAN : RecordOutcome(success)
  \/ GetMetrics

SpecMetrics == MetricsInit /\ [][MetricsNext]_vars

\* The breaker driven by one caller through execute(), getState() and
\* reset().
ResetNext ==
  \/ Tick
  \/ GetState
  \/ Execute(1)
  \/ Resolve(1)
  \/ Reject(1)
  \/ Reset

SpecReset == ForceInit /\ [][ResetNext]_vars

\* new CircuitBreaker(options) on numeric options of every kind.
ConstructInit ==
  /\ BreakerIdle /\ NoRetry /\ StoreInit /\ NoExtractors
  /\ \E options \in NumberOptions :
       pure = [fn |-> "CircuitBreaker", called |-> FALSE, options |-> options]

Construct ==
  /\ pure.fn = "CircuitBreaker"
  /\ ~pure.called
  /\ pure' = [fn |-> "CircuitBreaker", called |-> TRUE,
              options |-> pure.options,
              result |-> constructBreaker(pure.options)]
  /\ UNCHANGED <<breaker, now, calls, hist, last, rcfg, retry, store, extractors>>

SpecConstruct == ConstructInit /\ [][Construct]_vars

\* calculateBackoff(attempt, config) on the configs the functions accept:
\* nothing orders initialDelay and maxDelay.
BackoffConfigs ==
  [initialDelay : {0, 1, 1000, 5000},
   maxDelay     : {3, 4000, 30000},
   multiplier   : {1, 2, 3},
   strategy     : {"exponential", "linear", "constant", "other"}]

BackoffInit ==
  /\ BreakerIdle /\ NoRetry /\ StoreInit /\ NoExtractors
  /\ \E attempt \in 0 .. MaxBackoffAttempt, config \in BackoffConfigs :
       pure = [fn |-> "calculateBackoff", called |-> FALSE,
               attempt |-> attempt, config |-> config]

CalculateBackoff ==
  /\ pure.fn = "calculateBackoff"
  /\ ~pure.called
  /\ pure' = [fn |-> "calculateBackoff", called |-> TRUE,
              attempt |-> pure.attempt, config |-> pure.config,
              result |-> calculateBackoff(pure.attempt, pure.config)]
  /\ UNCHANGED <<breaker, now, calls, hist, last, rcfg, retry, store, extractors>>

SpecBackoff == BackoffInit /\ [][CalculateBackoff]_vars

\* applyJitter as one retry run calls it: strategy, initialDelay and maxDelay
\* are the run's config, previousDelay starts as initialDelay and is then
\* the delay last returned; the base delay is any integer.
BaseDelays == {0, 1, 2, 5}

JitterInit ==
  /\ BreakerIdle /\ NoRetry /\ StoreInit /\ NoExtractors
  /\ \E baseDelay \in BaseDelays,
        strategy \in {"none", "full", "equal", "decorrelated", "other"},
        initialDelay \in {0, 1, 4}, maxDelay \in {3, 6} :
       pure = [fn |-> "applyJitter", called |-> FALSE, n |-> 0,
               baseDelay |-> baseDelay, strategy |-> strategy,
               previousDelay |-> initialDelay, initialDelay |-> initialDelay,
               maxDelay |-> maxDelay, result |-> 0]

\* const delay = applyJitter(baseDelay, config.jitter, { previousDelay, ... })
ApplyJitter ==
  /\ pure.fn = "applyJitter"
  /\ ~pure.called
  /\ \E delay \in applyJitter(pure.baseDelay, pure.strategy,
                               [previousDelay |-> pure.previousDelay,
                                initialDelay  |-> pure.initialDelay,
                                maxDelay      |-> pure.maxDelay]) :
       pure' = [pure EXCEPT !.called = TRUE, !.result = delay]
  /\ UNCHANGED <<breaker, now, calls, hist, last, rcfg, retry, store, extractors>>

\* previousDelay = delay, and the next attempt fails with its own base delay.
NextDelay ==
  /\ pure.fn = "applyJitter"
  /\ pure.called
  /\ pure.n + 1 < MaxJitterCalls
  /\ \E baseDelay \in BaseDelays :
       pure' = [pure EXCEPT !.called = FALSE, !.n = @ + 1,
                            !.previousDelay = pure.result,
                            !.baseDelay = baseDelay]
  /\ UNCHANGED <<breaker, now, calls, hist, last, rcfg, retry, store, extractors>>

JitterNext == ApplyJitter \/ NextDelay

SpecJitter == JitterInit /\ [][JitterNext]_vars

\* extractError(error) is called on errors of every client's shape.
ThrownErrors ==
  LET
    ErrorCodes ==
      {"", "ETIMEDOUT", "ECONNABORTED", "ECONNREFUSED", "ECONNRESET", "ENOTFOUND",
       "ERR_NETWORK", "ERR_CANCELED", "ERR_BAD_REQUEST"}
    AxiosErrors ==
      {e \in [kind : {"Error"}, isAxiosError : {TRUE},
              name : {"AxiosError", "AbortError", "CanceledError"},
              message : {"boom"}, statusCode : {0}, status : {0},
              code : ErrorCodes, causeCode : {""}, type : {""},
              hasResponse : BOOLEAN, responseStatus : {0, 400, 404, 408, 429, 500},
              responseStatusCode : {0}, bodyMessage : {"", "x"},
              hasRequest : BOOLEAN] :
         /\ e.hasResponse <=> e.responseStatus # 0
         /\ e.bodyMessage # "" => e.hasResponse}
    GotErrors ==
      {e \in [kind : {"Error"}, isAxiosError : {FALSE},
              name : {"HTTPError", "RequestError"},
              message : {"boom"}, statusCode : {0}, status : {0},
              code : ErrorCodes, causeCode : {""}, type : {""},
              hasResponse : BOOLEAN, responseStatus : {0},
              responseStatusCode : {0, 404, 408, 503}, bodyMessage : {""},
              hasRequest : {FALSE}] :
         e.hasResponse <=> e.responseStatusCode # 0}
    FetchErrors ==
      [kind : {"Error"}, isAxiosError : {FALSE}, name : {"TypeError"},
       message : {"fetch failed", "network error"}, statusCode : {0}, status : {0},
       code : {""},
       causeCode : {"", "ECONNREFUSED", "UND_ERR_CONNECT_TIMEOUT", "UND_ERR_SOCKET",
                    "UND_ERR_ABORTED"},
       type : {""}, hasResponse : {FALSE}, responseStatus : {0},
       responseStatusCode : {0}, bodyMessage : {""}, hasRequest : {FALSE}]
    NodeFetchErrors ==
      [kind : {"Error"}, isAxiosError : {FALSE}, name : {"FetchError"},
       message : {"boom"}, statusCode : {0}, status : {0},
       code : ErrorCodes, causeCode : {""},
       type : {"system", "body-timeout", "request-timeout"},
       hasResponse : {FALSE}, responseStatus : {0},
       responseStatusCode : {0}, bodyMessage : {""}, hasRequest : {FALSE}]
    GenericErrors ==
      [kind : {"Error", "object"}, isAxiosError : {FALSE}, name : {"Error"},
       message : {"boom", ""}, statusCode : {0, 404, 408, 503}, status : {0, 429},
       code : ErrorCodes, causeCode : {""}, type : {""},
       hasResponse : {FALSE}, responseStatus : {0},
       responseStatusCode : {0}, bodyMessage : {""}, hasRequest : {FALSE}]
      \cup {[PlainError EXCEPT !.kind = "primitive", !.name = ""]}
  IN
  AxiosErrors \cup GotErrors \cup FetchErrors \cup NodeFetchErrors
    \cup GenericErrors

ExtractInit ==
  /\ BreakerIdle /\ NoRetry /\ StoreInit /\ NoExtractors
  /\ \E error \in ThrownErrors :
       pure = [fn |-> "extractError", called |-> FALSE, error |-> error]

ExtractError ==
  /\ pure.fn = "extractError"
  /\ ~pure.called
  /\ pure' = [fn |-> "extractError", called |-> TRUE, error |-> pure.error,
              result |-> extractError(pure.error)]
  /\ UNCHANGED <<breaker, now, calls, hist, last, rcfg, retry, store, extractors>>

SpecExtract == ExtractInit /\ [][ExtractError]_vars

\* classifyError(statusCode, errorCode): 0 is an absent status code and ""
\* an absent error code.
ClassifyInit ==
  /\ BreakerIdle /\ NoRetry /\ StoreInit /\ NoExtractors
  /\ \E statusCode \in {0, 200, 399, 400, 401, 403, 404, 408, 418, 422, 429,
                          499, 500, 503, 599},
        errorCode \in RETRYABLE_NETWORK_CODES
                        \cup {"", "ERR_CANCELED", "ABORT_ERR", "ERR_BAD_REQUEST"} :
       pure = [fn |-> "classifyError", called |-> FALSE,
               statusCode |-> statusCode, errorCode |-> errorCode]

ClassifyError ==
  /\ pure.fn = "classifyError"
  /\ ~pure.called
  /\ pure' = [fn |-> "classifyError", called |-> TRUE,
              statusCode |-> pure.statusCode, errorCode |-> pure.errorCode,
              result |-> classifyError(pure.statusCode, pure.errorCode)]
  /\ UNCHANGED <<breaker, now, calls, hist, last, rcfg, retry, store, extractors>>

SpecClassify == ClassifyInit /\ [][ClassifyError]_vars

\* -------------------------------------------- custom extractor registry
\* The process-wide ordered registry of { name, canHandle, extract }.  A
\* custom extractor is its name and what its canHandle accepts: nothing,
\* objects carrying isAxiosError, every object, or every value.
ExtractorNames == {"first", "second", "third"}

CustomExtractors ==
  [name : ExtractorNames, canHandle : {"never", "axios", "object", "always"}]

canHandle(extractor, error) ==
  CASE extractor.canHandle = "never"  -> FALSE
    [] extractor.canHandle = "axios"  -> error.kind # "primitive" /\ error.isAxiosError
    [] extractor.canHandle = "object" -> error.kind # "primitive"
    [] OTHER -> TRUE

\* extractor.extract(error): a standardized error of clientType 'custom'.
customExtract(extractor, error) ==
  [message |-> extractor.name, statusCode |-> 0, code |-> "",
   classification |-> "unknown", isRetryable |-> FALSE, clientType |-> "custom"]

getRegisteredExtractors(list) == [i \in DOMAIN list |-> list[i].name]

registeredNames(list) == {list[i].name : i \in DOMAIN list}

\* Variant: a name already present is registered again.
registerExtractor_AllowsDuplicate(list, extractor) ==
  [list |-> Append(list, extractor), returned |-> ""]

\* registerExtractor(extractor): a duplicate name fails (throws) and leaves
\* the registry as it was; otherwise the extractor is added last.
registerExtractor(list, extractor) ==
  IF extractor.name \in registeredNames(list)
    THEN [list |-> list, returned |-> "threw"]
    ELSE [list |-> Append(list, extractor), returned |-> ""]

\* unregisterExtractor(name): removes the entry and returns true when it is
\* present, returns false otherwise.
unregisterExtractor(list, name) ==
  IF name \in registeredNames(list)
    THEN [list |-> SelectSeq(list, LAMBDA x : x.name # name), returned |-> "true"]
    ELSE [list |-> list, returned |-> "false"]

clearExtractors(list) == [list |-> <<>>, returned |-> ""]

Consulted(call, name) == [call |-> call, name |-> name]

\* Variant: the built-in path runs without the registry being consulted.
consultExtractors_BuiltInFirst(list, i, error, log) ==
  [log |-> Append(log, Consulted("built-in", "")), result |-> extractError(error)]

\* extractError(error): the custom extractors from position i on, in
\* registration order; the first whose canHandle returns true extracts;
\* with none, the built-in path.  log lists the calls made.
RECURSIVE consultExtractors(_, _, _, _)
consultExtractors(list, i, error, log) ==
  IF i > Len(list)
    THEN [log |-> Append(log, Consulted("built-in", "")),
          result |-> extractError(error)]
  ELSE IF canHandle(list[i], error)
    THEN [log |-> log \o <<Consulted("canHandle", list[i].name),
                           Consulted("extract", list[i].name)>>,
          result |-> customExtract(list[i], error)]
  ELSE consultExtractors(list, i + 1, error,
                         Append(log, Consulted("canHandle", list[i].name)))

\* A call on the registry: what it was called with, the registry before,
\* what it returned, and the call made before it.
RegistryCall(op, name, r) ==
  [list |-> r.list, op |-> op, name |-> name, before |-> extractors.list,
   returned |-> r.returned, prior |-> extractors.op,
   priorName |-> extractors.name, priorBefore |-> extractors.before,
   log |-> <<>>, error |-> 0, result |-> 0]

RegisterExtractor ==
  /\ \E extractor \in CustomExtractors :
       extractors' = RegistryCall("register", extractor.name,
                                  registerExtractor(extractors.list, extractor))
  /\ UNCHANGED <<breaker, now, calls, hist, last, rcfg, retry, store, pure>>

UnregisterExtractor ==
  /\ \E name \in ExtractorNames :
       extractors' = RegistryCall("unregister", name,
                                  unregisterExtractor(extractors.list, name))
  /\ UNCHANGED <<breaker, now, calls, hist, last, rcfg, retry, store, pure>>

ClearExtractors ==
  /\ extractors' = RegistryCall("clear", "", clearExtractors(extractors.list))
  /\ UNCHANGED <<breaker, now, calls, hist, last, rcfg, retry, store, pure>>

\* The errors extractError is called with while extractors are registered:
\* an axios response error, a plain Error, a string.
RegistryErrors ==
  {[PlainError EXCEPT !.isAxiosError = TRUE, !.hasResponse = TRUE,
                      !.responseStatus = 500],
   PlainError,
   [PlainError EXCEPT !.kind = "primitive", !.name = ""]}

ExtractErrorWithRegistry ==
  /\ \E error \in RegistryErrors :
       LET r == consultExtractors(extractors.list, 1, error, <<>>)
       IN  extractors' =
             [RegistryCall("extractError", "",
                           [list |-> extractors.list, returned |-> ""])
                EXCEPT !.log = r.log, !.error = error, !.result = r.result]
  /\ UNCHANGED <<breaker, now, calls, hist, last, rcfg, retry, store, pure>>

RegistryNext ==
  \/ RegisterExtractor
  \/ UnregisterExtractor
  \/ ClearExtractors
  \/ ExtractErrorWithRegistry

RegistryInit == BreakerIdle /\ NoRetry /\ StoreInit /\ NoPureCall

SpecRegistry == RegistryInit /\ [][RegistryNext]_vars

\* The same, with observers that may throw.
ObserverNext ==
  \/ Tick
  \/ GetState
  \/ GetStateObserverThrows
  \/ \E c \in Callers : Execute(c)
  \/ \E c \in Callers : ExecuteObserverThrows(c)
  \/ \E c \in Callers : Resolve(c)
  \/ \E c \in Callers : ResolveObserverThrows(c)
  \/ \E c \in Callers : Reject(c)
  \/ \E c \in Callers : RejectObserverThrows(c)

\* The breakers the observers are attached to: those with two probe slots.
ObserverInit ==
  /\ Init
  /\ breaker.config.failureThreshold = 50
  /\ breaker.config.halfOpenMaxRequests = 2

SpecObservers == ObserverInit /\ [][ObserverNext]_vars

\* An InMemoryStateStore and its clients.
InitStore == BreakerIdle /\ NoRetry /\ StoreInit /\ NoPureCall
SpecStore == InitStore /\ [][StoreNext]_vars


\* ------------------------------------------------------------ the claims
RecordOps  == {"resolve", "reject", "recordSuccess", "recordFailure"}
SuccessOps == {"resolve", "recordSuccess"}
FailureOps == {"reject", "recordFailure"}

\* The executes admitted as half-open probes that have not completed.
ProbesInFlight ==
  {c \in Callers : calls[c].pc = "awaiting" /\ calls[c].currentState = "half-open"}

\* C1: at any moment the number of executes admitted as half-open probes and
\* not yet completed is at most halfOpenMaxRequests.
C1_ProbesInFlightBounded ==
  Cardinality(ProbesInFlight) <= breaker.config.halfOpenMaxRequests

\* The live window, as getMetrics reports it now, trips the breaker.
WindowTrips ==
  LET m == windowMetrics(breaker, now)
  IN  /\ m.totalRequests >= breaker.config.minimumRequests
      /\ m.failedRequests * 100 >= breaker.config.failureThreshold * m.totalRequests

C3_RejectedWithoutInvoking ==
  /\ (last.op = "execute" /\ last.currentState = "open")
       => /\ ~last.fnInvoked
          /\ last.error.name = "CircuitBreakerOpenError"
          /\ last.error.message = "Circuit breaker is open"
          /\ calls[last.caller].pc = "idle"
  /\ (last.op = "execute" /\ last.currentState = "half-open" /\ ~last.fnInvoked)
       => /\ last.error.name = "CircuitBreakerOpenError"
          /\ last.error.message # "Circuit breaker is open"
          /\ calls[last.caller].pc = "idle"
          /\ breaker.halfOpenActiveRequests >= breaker.config.halfOpenMaxRequests

C3_Witness ==
  /\ last.op = "execute"
  /\ last.currentState = "open"
  /\ last.error = CircuitBreakerOpenError
  /\ \E c \in Callers : calls[c].pc = "awaiting"

\* C4: on an open breaker with at least resetTimeout elapsed since
\* lastFailureTime, getState moves it to half-open and execute admits the call
\* as a probe; with less elapsed, every operation leaves the breaker open.
C4_HalfOpenAfterResetTimeout ==
  LET elapsed == now - breaker.lastFailureTime
  IN  /\ (last.op = "getState" /\ last.from = "open"
            /\ elapsed >= breaker.config.resetTimeout)
           => breaker.state = "half-open"
      /\ (last.op = "execute" /\ last.from = "open"
            /\ elapsed >= breaker.config.resetTimeout)
           => /\ breaker.state = "half-open"
              /\ last.currentState = "half-open"
              /\ last.fnInvoked
              /\ last.error = NoError
              /\ last.caller \in ProbesInFlight
              /\ breaker.halfOpenActiveRequests = 1
      /\ (last.from = "open" /\ breaker.lastFailureTime # Null
            /\ elapsed < breaker.config.resetTimeout)
           => breaker.state = "open"

C4_Witness ==
  /\ last.op = "execute"
  /\ last.from = "open"
  /\ breaker.state = "half-open"
  /\ now - breaker.lastFailureTime = breaker.config.resetTimeout
  /\ last.caller \in ProbesInFlight

\* C5: a success recorded in half-open that brings the successes since
\* half-open began to successThreshold closes the breaker with the ring
\* cleared, both half-open counters zero and zero metrics; a success that
\* leaves the count below successThreshold leaves the breaker half-open.
C5_ClosesAtSuccessThreshold ==
  (last.op \in SuccessOps /\ last.from = "half-open")
    => /\ hist.succSince <= breaker.config.successThreshold
       /\ hist.succSince = breaker.config.successThreshold
            => /\ breaker.state = "closed"
               /\ \A i \in DOMAIN breaker.buckets : breaker.buckets[i] = EmptyBucket
               /\ breaker.halfOpenSuccesses = 0
               /\ breaker.halfOpenActiveRequests = 0
               /\ windowMetrics(breaker, now).totalRequests = 0
               /\ windowMetrics(breaker, now).successfulRequests = 0
               /\ windowMetrics(breaker, now).failedRequests = 0
       /\ hist.succSince < breaker.config.successThreshold
            => /\ breaker.state = "half-open"
               /\ breaker.halfOpenSuccesses = hist.succSince

C5_Witness ==
  /\ last.op \in SuccessOps
  /\ last.from = "half-open"
  /\ breaker.config.successThreshold = 2
  /\ hist.succSince = 2
  /\ breaker.state = "closed"

\* C6: a failure recorded in half-open opens the breaker at once, and the
\* completion of a probe that was in flight at that moment changes neither
\* the state, nor the half-open counters, nor lastFailureTime (which decides
\* when the breaker next becomes half-open).
C6_StaleProbesIgnored ==
  [][/\ (last'.op \in FailureOps /\ breaker.state = "half-open")
          => breaker'.state = "open"
     /\ (last'.op \in {"resolve", "reject"} /\ last'.stale)
          => /\ breaker'.state = breaker.state
             /\ breaker'.halfOpenSuccesses = breaker.halfOpenSuccesses
             /\ breaker'.halfOpenActiveRequests = breaker.halfOpenActiveRequests
             /\ breaker'.lastFailureTime = breaker.lastFailureTime]_vars


RetryEvents(ev) == SelectSeq(retry.events, LAMBDA x : x.ev = ev)
LastEvent == retry.events[Len(retry.events)]
RetryDone == retry.pc \in {"returned", "thrown"}

\* C7: fn is invoked at most maxAttempts times; once an invocation has
\* succeeded fn is not invoked again and that invocation's value is returned.
C7_AtMostMaxAttemptsFirstSuccessWins ==
  /\ FnInvocations(retry) <= rcfg.maxAttempts
  /\ \A i \in DOMAIN retry.events :
       retry.events[i].ev = "resolved"
         => /\ i = Len(retry.events)
            /\ retry.pc = "returned"
            /\ retry.result = retry.events[i].a

C7_Witness ==
  /\ retry.pc = "returned"
  /\ rcfg.maxAttempts = MaxAttemptsBound
  /\ FnInvocations(retry) = rcfg.maxAttempts
  /\ Len(RetryEvents("resolved")) = 1

\* C8: when shouldRetry returns true each time it is asked (and onRetry
\* returns) and fn fails on its first k-1 invocations and succeeds on the
\* k-th, k <= maxAttempts, the call returns the k-th invocation's value after
\* exactly k invocations, onRetry having been called k-1 times with attempt
\* numbers 1 .. k-1 and onFailure never.
C8_RetriedUntilSuccess ==
  LET k == rcfg.succeedOn
  IN  (/\ RetryDone
       /\ k <= rcfg.maxAttempts
       /\ \A i \in DOMAIN retry.events :
            /\ retry.events[i].ev = "shouldRetry" => retry.events[i].d = 1
            /\ retry.events[i].ev # "threw"
       /\ ~retry.aborted)
        => /\ retry.pc = "returned"
           /\ retry.result = k
           /\ FnInvocations(retry) = k
           /\ Len(RetryEvents("rejected")) = k - 1
           /\ Len(RetryEvents("onRetry")) = k - 1
           /\ \A j \in 1 .. k - 1 : RetryEvents("onRetry")[j].a = j
           /\ Len(RetryEvents("sleep")) = k - 1
           /\ RetryEvents("onFailure") = <<>>

C8_Witness ==
  /\ retry.pc = "returned"
  /\ rcfg.succeedOn = 3
  /\ Len(RetryEvents("onRetry")) = 2
  /\ \A i \in DOMAIN retry.events : retry.events[i].ev # "threw"

\* C9: when the call fails because attempts are exhausted or the predicate
\* refused (onFailure was called and returned), the error thrown is the error
\* raised by the last invocation of fn, the same object.
C9_ThrowsLastError ==
  (/\ retry.pc = "thrown"
   /\ retry.events # <<>>
   /\ LastEvent.ev = "onFailure")
    => /\ FnInvocations(retry) >= 1
       /\ RetryEvents("rejected")[Len(RetryEvents("rejected"))].a
            = FnInvocations(retry)
       /\ retry.thrown = FnError(FnInvocations(retry))

C9_Witness ==
  /\ retry.pc = "thrown"
  /\ retry.events # <<>>
  /\ LastEvent.ev = "onFailure"
  /\ FnInvocations(retry) = 3
  /\ retry.thrown = FnError(3)

BoomCall ==
  /\ rcfg.kind = "retry"
  /\ rcfg.shouldRetry = "default"
  /\ rcfg.throws.message = "boom"
  /\ rcfg.throws.statusCode = 0 /\ rcfg.throws.status = 0
  /\ rcfg.throws.code = ""
  /\ rcfg.maxAttempts = 3
  /\ rcfg.initialDelay = 1
  /\ rcfg.jitter = "none"
  /\ rcfg.succeedOn > rcfg.maxAttempts

\* C11 (as stated): the call of the example invokes the operation exactly 3
\* times, then raises 'boom', and onFailure is called exactly once, with
\* attempts = 3.
C11_BoomRetriedThreeTimes ==
  (BoomCall /\ RetryDone /\ LastEvent.ev # "threw")
    => /\ FnInvocations(retry) = 3
       /\ retry.pc = "thrown"
       /\ retry.thrown = FnError(3)
       /\ RetryEvents("onFailure") = <<Event("onFailure", 3, 0, 3)>>

\* C11 (amended): the default predicate finds 'boom' not retryable, so the
\* call of the example invokes the operation exactly once, then raises
\* 'boom', and onFailure is called exactly once, with attempts = 1; there is
\* no onRetry and no sleep.
C11_BoomNotRetried ==
  (BoomCall /\ RetryDone /\ LastEvent.ev # "threw")
    => /\ FnInvocations(retry) = 1
       /\ retry.pc = "thrown"
       /\ retry.thrown = FnError(1)
       /\ RetryEvents("onFailure") = <<Event("onFailure", 1, 0, 1)>>
       /\ RetryEvents("onRetry") = <<>>
       /\ RetryEvents("sleep") = <<>>

C11_Witness ==
  /\ BoomCall
  /\ rcfg.throws.kind = "Error"
  /\ retry.pc = "thrown"
  /\ LastEvent.ev = "onFailure"
  /\ retry.thrown = FnError(1)

\* C12: in retryWithSignal, once the signal has fired fn is never invoked
\* again; a call made with the signal already fired makes no attempt and
\* fails with AbortError; the signal firing during a sleep ends the sleep at
\* once and the call fails with AbortError.
C12_AbortStopsAttempts ==
  [][/\ retry.aborted => FnInvocations(retry') = FnInvocations(retry)
     /\ (retry.aborted /\ retry.pc = "called")
          => /\ retry'.pc = "thrown"
             /\ retry'.thrown = AbortError
             /\ retry'.events = <<>>
     /\ (retry.pc = "sleeping" /\ ~retry.aborted /\ retry'.aborted)
          => /\ retry'.pc = "thrown"
             /\ retry'.thrown = AbortError
             /\ retry'.events = retry.events]_vars

C12_Witness ==
  /\ rcfg.kind = "retryWithSignal"
  /\ retry.aborted
  /\ retry.pc = "thrown"
  /\ retry.thrown = AbortError
  /\ retry.events # <<>>
  /\ LastEvent.ev = "sleep"
  /\ FnInvocations(retry) < rcfg.maxAttempts

\* C13: with a per-attempt timeout configured, an attempt whose operation
\* has not settled when the timeout elapses fails with a timeout error at that
\* moment: once the timer has fired the attempt no longer awaits the
\* operation, and the outcome of the attempt is not the operation's.
C13_TimeoutEndsAttempt ==
  retry.timer = "fired"
    => /\ retry.pc # "awaitFn"
       /\ retry.pc # "returned"
       /\ LastEvent.ev \notin {"fn", "resolved"}

\* C14: if shouldRetry, onRetry or onFailure throws, the call stops at once:
\* nothing more is called (no further attempt, callback or sleep) and the
\* call throws the exception of the predicate or callback, not the
\* operation's error.
C14_CallbackExceptionPropagates ==
  \A i \in DOMAIN retry.events :
    retry.events[i].ev = "threw"
      => /\ i = Len(retry.events)
         /\ i > 1
         /\ retry.pc = "thrown"
         /\ retry.events[i - 1].ev \in {"shouldRetry", "onRetry", "onFailure"}
         /\ retry.events[i - 1].ev = "shouldRetry"
              => retry.thrown = PredicateError
         /\ retry.events[i - 1].ev \in {"onRetry", "onFailure"}
              => retry.thrown = CallbackError
         /\ retry.thrown # retry.lastError

C14_Witness ==
  /\ retry.pc = "thrown"
  /\ Len(retry.events) > 1
  /\ LastEvent.ev = "threw"
  /\ retry.events[Len(retry.events) - 1].ev = "onRetry"
  /\ retry.thrown = CallbackError
  /\ FnInvocations(retry) = 2
  /\ FnInvocations(retry) < rcfg.maxAttempts

\* C15: an execute that is rejected (open, or half-open with every probe slot
\* taken) leaves the ring, lastFailureTime, lastSuccessTime, halfOpenSuccesses
\* and halfOpenActiveRequests as they were: the rejection is not counted in
\* the window.
C15_RejectionChangesNothing ==
  [][(last'.op = "execute" /\ ~last'.fnInvoked)
       => /\ last'.error.name = "CircuitBreakerOpenError"
          /\ breaker'.buckets = breaker.buckets
          /\ breaker'.lastFailureTime = breaker.lastFailureTime
          /\ breaker'.lastSuccessTime = breaker.lastSuccessTime
          /\ breaker'.halfOpenSuccesses = breaker.halfOpenSuccesses
          /\ breaker'.halfOpenActiveRequests = breaker.halfOpenActiveRequests
          /\ windowMetrics(breaker', now') = windowMetrics(breaker, now)]_vars

C15_Witness ==
  /\ last.op = "execute"
  /\ ~last.fnInvoked
  /\ last.currentState = "half-open"
  /\ breaker.halfOpenActiveRequests = breaker.config.halfOpenMaxRequests
  /\ windowMetrics(breaker, now).failedRequests > 0

\* C16: in every reachable half-open state, halfOpenActiveRequests is at most
\* halfOpenMaxRequests.
C16_ActiveRequestsBounded ==
  breaker.state = "half-open"
    => breaker.halfOpenActiveRequests <= breaker.config.halfOpenMaxRequests

C16_Witness ==
  /\ breaker.state = "half-open"
  /\ breaker.config.halfOpenMaxRequests = 2
  /\ breaker.halfOpenActiveRequests = 2
  /\ last.op = "execute"
  /\ last.fnInvoked

\* C17: an execute admitted as a half-open probe releases its slot when it
\* completes, whether the operation succeeds, fails, or an observer throws
\* while the outcome is recorded; so halfOpenActiveRequests is never negative
\* and never more than the number of admitted probes still in flight.
C17_SlotsReleased ==
  /\ breaker.halfOpenActiveRequests >= 0
  /\ breaker.halfOpenActiveRequests <= Cardinality(ProbesInFlight)

C17_Witness ==
  /\ last.op \in {"resolveThrows", "rejectThrows"}
  /\ last.currentState = "half-open"
  /\ last.from = "half-open"
  /\ ProbesInFlight # {}
  /\ breaker.halfOpenActiveRequests = 0

\* The CircuitBreakerState a breaker would persist.
PersistedState(b) ==
  [state                  |-> b.state,
   buckets                |-> [i \in 1 .. b.config.bucketCount |-> b.buckets[i - 1]],
   lastFailureTime        |-> b.lastFailureTime,
   lastSuccessTime        |-> b.lastSuccessTime,
   halfOpenSuccesses      |-> b.halfOpenSuccesses,
   halfOpenActiveRequests |-> b.halfOpenActiveRequests]

\* C19: a breaker constructed with a stateStore and a circuitId persists its
\* state: once an operation has changed its state, buckets, timestamps or
\* half-open counters, the store's record for circuitId is the breaker's
\* current state.
C19_StatePersisted ==
  (last.op \in RecordOps \cup {"execute", "getState"}
     /\ PersistedState(breaker) # [NoObject EXCEPT
            !.state = "closed",
            !.buckets = [i \in 1 .. breaker.config.bucketCount |-> EmptyBucket]])
    => /\ "circuit-1" \in getCircuitIds(store)
       /\ stateValue(store, storeGetState(store, "circuit-1"))
            = PersistedState(breaker)

\* C18: the store isolates stored state in both directions: a client writing
\* to an object it holds (one it passed to setState, or one getState
\* returned) changes nothing of what the store holds for any circuit, that
\* is of what a later getState returns.
C18_StoreIsolated ==
  [][store'.op = "mutate"
       => \A id \in CircuitIds :
            stateValue(store', storeGetState(store', id))
              = stateValue(store, storeGetState(store, id))]_vars

\* C20: forceState(s) leaves the breaker in state s; forceState('closed')
\* also clears the ring and zeroes both half-open counters; forceState('open')
\* sets lastFailureTime to now, so that the breaker is open for as long as
\* less than resetTimeout has passed since (and it is not forced elsewhere);
\* forceState('half-open') zeroes both half-open counters.
C20_ForceState ==
  /\ last.op = "forceState"
       => /\ breaker.state = last.currentState
          /\ last.currentState = "closed"
               => /\ \A i \in DOMAIN breaker.buckets :
                       breaker.buckets[i] = EmptyBucket
                  /\ windowMetrics(breaker, now).totalRequests = 0
                  /\ breaker.halfOpenSuccesses = 0
                  /\ breaker.halfOpenActiveRequests = 0
          /\ last.currentState = "open" => breaker.lastFailureTime = now
          /\ last.currentState = "half-open"
               => /\ breaker.halfOpenSuccesses = 0
                  /\ breaker.halfOpenActiveRequests = 0
  /\ (hist.forcedOpenAt # Null
        /\ now - hist.forcedOpenAt < breaker.config.resetTimeout)
       => breaker.state = "open"

C20_Witness ==
  /\ hist.forcedOpenAt # Null
  /\ now - hist.forcedOpenAt = 250
  /\ breaker.lastFailureTime = hist.forcedOpenAt
  /\ breaker.lastSuccessTime # Null
  /\ windowMetrics(breaker, now).failedRequests = 0
  /\ last.op = "getState"
  /\ breaker.state = "open"

\* C21: after reset(), from any reachable state, the breaker is closed, every
\* bucket is cleared, lastFailureTime and lastSuccessTime are null, both
\* half-open counters are zero and getMetrics reports zero requests.
C21_ResetRestoresInitialState ==
  last.op = "reset" =>
    /\ breaker.state = "closed"
    /\ \A i \in DOMAIN breaker.buckets : breaker.buckets[i] = EmptyBucket
    /\ breaker.lastFailureTime = Null
    /\ breaker.lastSuccessTime = Null
    /\ breaker.halfOpenSuccesses = 0
    /\ breaker.halfOpenActiveRequests = 0
    /\ checkStateTransition(breaker, now).state = "closed"
    /\ windowMetrics(checkStateTransition(breaker, now), now).totalRequests = 0

\* reset() was called on a half-open breaker with a probe in flight, after
\* outcomes had been recorded.
C21_Witness ==
  /\ last.op = "reset"
  /\ last.from = "half-open"
  /\ hist.records >= 2
  /\ calls[1].pc = "awaiting"
  /\ calls[1].currentState = "half-open"

\* A number lies in [lo, hi] (NaN lies in no range).
InRange(x, lo, hi) ==
  x.kind \notin {"NaN", "undefined"} /\ ~numLess(x, lo) /\ ~numLess(hi, x)

\* An option that was given in range is the resolved value.
KeptInRange(field, lo, hi) ==
  InRange(pure.options[field], lo, hi) =>
    pure.result.config[field] = pure.options[field]

\* C22: for any numeric option values construction succeeds and the resolved
\* configuration has failureThreshold in [1,100], minimumRequests,
\* successThreshold and halfOpenMaxRequests >= 1, rollingWindow >= 1000,
\* resetTimeout >= 100, bucketCount in [2,60] and bucketDuration =
\* floor(rollingWindow / bucketCount) >= 1; values in range are kept.
C22_ConstructionClamps ==
  (pure.fn = "CircuitBreaker" /\ pure.called) =>
    LET config == pure.result.config
    IN  /\ pure.result.error = NoError
        /\ InRange(config.failureThreshold, Num(1), Num(100))
        /\ InRange(config.minimumRequests, Num(1), PosInf)
        /\ InRange(config.successThreshold, Num(1), PosInf)
        /\ InRange(config.halfOpenMaxRequests, Num(1), PosInf)
        /\ InRange(config.rollingWindow, Num(1000), PosInf)
        /\ InRange(config.resetTimeout, Num(100), PosInf)
        /\ InRange(config.bucketCount, Num(2), Num(60))
        /\ config.bucketDuration =
             floorOfQuotient(config.rollingWindow, config.bucketCount)
        /\ InRange(config.bucketDuration, Num(1), PosInf)
        /\ KeptInRange("failureThreshold", Num(1), Num(100))
        /\ KeptInRange("minimumRequests", Num(1), PosInf)
        /\ KeptInRange("successThreshold", Num(1), PosInf)
        /\ KeptInRange("halfOpenMaxRequests", Num(1), PosInf)
        /\ KeptInRange("rollingWindow", Num(1000), PosInf)
        /\ KeptInRange("resetTimeout", Num(100), PosInf)
        /\ KeptInRange("bucketCount", Num(2), Num(60))

\* The attempts of the retry call that the breaker rejected.
BreakerRejected == {i \in DOMAIN retry.events : retry.events[i].ev = "breakerRejected"}

\* C23: when retry with the default predicate wraps breaker.execute, an
\* attempt that the breaker rejects does not invoke the operation, is not
\* retried, and the caller of retry observes the CircuitBreakerOpenError
\* sentinel, not an operation error.
C23_BreakerRejectionIsFinal ==
  \A i \in BreakerRejected :
    /\ \A j \in DOMAIN retry.events :
         retry.events[j].ev = "operation" => retry.events[j].a # retry.events[i].a
    /\ \A j \in DOMAIN retry.events : j > i => retry.events[j].ev # "fn"
    /\ retry.pc = "thrown"
    /\ retry.thrown = BreakerRejection(retry.events[i].a)

\* The first attempt reached the operation and failed, the breaker opened,
\* and the second attempt was rejected with attempts left.
C23_Witness ==
  /\ rcfg.maxAttempts = 3
  /\ \E i \in BreakerRejected : retry.events[i].a = 2
  /\ \E j \in DOMAIN retry.events :
       retry.events[j].ev = "operation" /\ retry.events[j].a = 1
  /\ retry.pc = "thrown"

\* C24 as claimed: for every attempt >= 0 and every backoff strategy the base
\* delay returned by calculateBackoff is <= maxDelay.
C24_BaseDelayCapped ==
  (pure.fn = "calculateBackoff" /\ pure.called) =>
    pure.result <= pure.config.maxDelay

\* C24, amended: the exponential and linear base delays are <= maxDelay; the
\* constant base delay is initialDelay, whatever maxDelay is.
C24_BaseDelayCappedUnlessConstant ==
  (pure.fn = "calculateBackoff" /\ pure.called) =>
    IF pure.config.strategy = "constant"
      THEN pure.result = pure.config.initialDelay
      ELSE pure.result <= pure.config.maxDelay

\* An exponential delay that the cap cut down.
C24_Witness ==
  /\ pure.fn = "calculateBackoff" /\ pure.called
  /\ pure.config.strategy = "exponential"
  /\ pure.attempt = 3
  /\ pure.config.initialDelay * 8 > pure.config.maxDelay
  /\ pure.config.multiplier = 2
  /\ pure.result = pure.config.maxDelay

\* What C25 says of the strategies other than decorrelated: none returns d,
\* full and an unknown strategy an integer in [0, d], equal a value in
\* [floor(d/2), d].
JitterWithinBase ==
  CASE pure.strategy = "none"  -> pure.result = pure.baseDelay
    [] pure.strategy = "equal" ->
         pure.result \in (pure.baseDelay \div 2) .. pure.baseDelay
    [] pure.strategy = "decorrelated" -> TRUE
    [] OTHER -> pure.result \in 0 .. pure.baseDelay

\* C25 as claimed: for every integer base delay d >= 0 applyJitter returns d
\* for none, an integer in [0, d] for full and unknown strategies, a value in
\* [floor(d/2), d] for equal, and for decorrelated a value in
\* [initialDelay, maxDelay] drawn from [initialDelay, 3 * p], p the previous
\* jittered delay of the run (initialDelay for the first retry).
C25_JitterRanges ==
  (pure.fn = "applyJitter" /\ pure.called) =>
    /\ JitterWithinBase
    /\ pure.strategy = "decorrelated" =>
         /\ pure.result \in pure.initialDelay .. pure.maxDelay
         /\ pure.result \in pure.initialDelay .. 3 * pure.previousDelay

\* C25, amended: the same, the decorrelated delay being at most maxDelay in
\* every case, and in [initialDelay, maxDelay] and in [initialDelay, 3 * p]
\* when the run's config has initialDelay <= maxDelay.
C25_JitterRangesOrderedConfig ==
  (pure.fn = "applyJitter" /\ pure.called) =>
    /\ JitterWithinBase
    /\ pure.strategy = "decorrelated" =>
         /\ pure.result <= pure.maxDelay
         /\ pure.initialDelay <= pure.maxDelay =>
              /\ pure.result \in pure.initialDelay .. pure.maxDelay
              /\ pure.result \in pure.initialDelay .. 3 * pure.previousDelay

\* The second decorrelated delay of a run, cut down to maxDelay, the first
\* one having been above initialDelay.
C25_Witness ==
  /\ pure.fn = "applyJitter" /\ pure.called
  /\ pure.strategy = "decorrelated"
  /\ pure.n = 1
  /\ pure.initialDelay = 1
  /\ pure.previousDelay = 2
  /\ pure.maxDelay = 3
  /\ pure.result = 3

IsCancelled(error) ==
  \/ error.code = "ERR_CANCELED"
  \/ error.name = "AbortError" /\ error.code = ""

\* C27: for an error where a request was made but no response was received,
\* extractError synthesizes the status code from the error code: timeout
\* codes give 408, refused, reset, DNS and network codes give 503, and a
\* cancelled request gives 499.
C27_SynthesizedStatus ==
  (/\ pure.fn = "extractError" /\ pure.called
   /\ pure.error.isAxiosError /\ pure.error.hasRequest
   /\ ~pure.error.hasResponse) =>
    /\ pure.error.code \in {"ETIMEDOUT", "ECONNABORTED"} =>
         pure.result.statusCode = 408
    /\ pure.error.code \in {"ECONNREFUSED", "ECONNRESET", "ENOTFOUND", "ERR_NETWORK"} =>
         pure.result.statusCode = 503
    /\ IsCancelled(pure.error) => pure.result.statusCode = 499

\* The classification an error code decides, "" when it decides none.
ByErrorCode(errorCode) ==
  CASE errorCode \in {"ETIMEDOUT", "ECONNABORTED", "UND_ERR_CONNECT_TIMEOUT"}
         -> "timeout"
    [] errorCode \in {"ECONNRESET", "ECONNREFUSED", "ENETUNREACH",
                      "EHOSTUNREACH", "EPIPE", "EAI_AGAIN", "ENOTFOUND",
                      "ERR_NETWORK", "UND_ERR_SOCKET"} -> "network"
    [] errorCode \in {"ERR_CANCELED", "ABORT_ERR"} -> "cancelled"
    [] OTHER -> ""

C29_RegistryNamesUnique ==
  LET list == extractors.list
      before == extractors.before
      present == extractors.name \in registeredNames(before)
  IN  /\ \A i, j \in DOMAIN list : list[i].name = list[j].name => i = j
      /\ (extractors.op = "register" /\ present) =>
           extractors.returned = "threw" /\ list = before
      /\ extractors.op = "unregister" =>
           /\ extractors.returned = (IF present THEN "true" ELSE "false")
           /\ extractors.name \notin registeredNames(list)
           /\ \A x \in registeredNames(before) :
                x # extractors.name => x \in registeredNames(list)
           /\ ~present => list = before
      /\ (/\ extractors.op = "unregister"
          /\ extractors.prior = "register"
          /\ extractors.priorName = extractors.name
          /\ extractors.priorBefore = <<>>) => list = <<>>

\* A name was registered twice, the second time with two extractors in the
\* registry.
C29_Witness ==
  /\ extractors.op = "register"
  /\ extractors.returned = "threw"
  /\ Len(extractors.list) = 2
  /\ extractors.prior = "unregister"

\* The position of the first extractor of the list that accepts the error,
\* 0 when none does.
FirstAccepting(list, error) ==
  IF \E i \in DOMAIN list : canHandle(list[i], error)
    THEN CHOOSE i \in DOMAIN list :
           /\ canHandle(list[i], error)
           /\ \A j \in 1 .. i - 1 : ~canHandle(list[j], error)
    ELSE 0

C31_OnlyFourEdges ==
  breaker.state # last.from =>
    <<last.from, breaker.state>> \in
      {<<"closed", "open">>, <<"open", "half-open">>,
       <<"half-open", "closed">>, <<"half-open", "open">>}

\* A breaker that reopened from half-open: it has gone closed -> open,
\* open -> half-open and half-open -> open.
C31_Witness ==
  /\ last.from = "half-open"
  /\ breaker.state = "open"
  /\ last.op \in {"reject", "recordFailure"}

C33_StrictOrder ==
  LET ev == retry.events
      n  == Len(ev)
  IN  ((\A i \in 1 .. n : ev[i].ev # "threw") /\ ~retry.aborted) =>
        /\ \A j \in 1 .. n :
             (ev[j].ev = "fn" /\ ev[j].a > 1) =>
               /\ j > 5
               /\ ev[j - 5] = Event("fn", ev[j].a - 1, 0, 0)
               /\ ev[j - 4] = Event("rejected", ev[j].a - 1, 0, ev[j].a - 1)
               /\ ev[j - 3] = Event("shouldRetry", ev[j].a - 2, 1, ev[j].a - 1)
               /\ ev[j - 2].ev = "onRetry"
               /\ ev[j - 2].a = ev[j].a - 1
               /\ ev[j - 2].e = ev[j].a - 1
               /\ ev[j - 1] = Event("sleep", 0, ev[j - 2].d, 0)
        /\ \A j \in 1 .. n :
             ev[j].ev = "rejected" => (j < n /\ ev[j + 1].ev = "shouldRetry")
        /\ \A j \in 1 .. n :
             ev[j].ev = "onRetry" =>
               /\ j > 1 /\ ev[j - 1].ev = "shouldRetry"
               /\ j < n /\ ev[j + 1].ev = "sleep"
        /\ \A j \in 1 .. n :
             ev[j].ev = "sleep" =>
               /\ j > 1 /\ ev[j - 1].ev = "onRetry"
               /\ IF j = n THEN retry.pc = "sleeping"
                  ELSE ev[j + 1] = Event("fn", ev[j - 1].a + 1, 0, 0)
        /\ retry.pc \in {"returned", "thrown"} =>
             \A j \in 1 .. n :
               ev[j].ev \in {"onRetry", "sleep"} =>
                 \E k \in j + 1 .. n : ev[k].ev = "fn"

\* A run that failed twice, slept twice and returned from its third attempt.
C33_Witness ==
  /\ retry.pc = "returned"
  /\ ~retry.aborted
  /\ \A i \in DOMAIN retry.events : retry.events[i].ev # "threw"
  /\ Len(SelectSeq(retry.events, LAMBDA x : x.ev = "sleep")) = 2
  /\ Len(SelectSeq(retry.events, LAMBDA x : x.ev = "fn")) = 3

\* An outcome of the log is held by the ring while its bucket has not been
\* reset since, and counted by getMetrics at time t while that bucket is live.
Counted(entry, t) ==
  /\ breaker.buckets[entry.bucket].timestamp = entry.stamp
  /\ entry.stamp > t - breaker.config.rollingWindow

\* C34: getMetrics reports totalRequests = successfulRequests +
\* failedRequests and failureRate = 100 * failedRequests / totalRequests (0
\* when totalRequests is 0), and every outcome it counts was recorded less
\* than rollingWindow ms before the call.
C34_MetricsOfLiveBuckets ==
  pure.fn = "getMetrics" /\ pure.called =>
    LET m == pure.result
        counted == SelectSeq(pure.log, LAMBDA e : Counted(e, now))
    IN  /\ m.totalRequests = m.successfulRequests + m.failedRequests
        /\ IF m.totalRequests = 0 THEN m.rateNum = 0
           ELSE /\ m.rateNum = 100 * m.failedRequests
                /\ m.rateDen = m.totalRequests
        /\ m.successfulRequests = Len(SelectSeq(counted, LAMBDA e : e.success))
        /\ m.failedRequests = Len(SelectSeq(counted, LAMBDA e : ~e.success))
        /\ \A i \in DOMAIN counted : now - counted[i].t < breaker.config.rollingWindow

\* getMetrics is called on a ring that holds an outcome too old to count and
\* one that counts.
C34_Witness ==
  /\ pure.fn = "getMetrics" /\ pure.called
  /\ pure.result.totalRequests = 1
  /\ \E i, j \in DOMAIN pure.log :
       /\ breaker.buckets[pure.log[i].bucket].timestamp = pure.log[i].stamp
       /\ ~Counted(pure.log[i], now)
       /\ Counted(pure.log[j], now)

\* C35: every admitted execute records exactly one outcome in the window: a
\* success and no failure when the operation resolved, a failure and no
\* success when it rejected, also when an observer called by that recording
\* throws.  (A success that closes the breaker is recorded and then cleared
\* with the ring.)
C35_OneOutcomePerExecute ==
  [][LET i    == bucketIndexAt(breaker, now)
         base == getCurrentBucket(breaker, now).buckets[i]
         cell == breaker'.buckets[i]
     IN  /\ last'.op \in {"resolve", "resolveThrows"} =>
              /\ breaker'.lastSuccessTime = now
              /\ breaker'.lastFailureTime = breaker.lastFailureTime
              /\ cell.failure <= base.failure
              /\ \/ cell.success = base.success + 1
                 \/ /\ breaker.state = "half-open"
                    /\ breaker'.state = "closed"
                    /\ cell.success = 0
         /\ last'.op \in {"reject", "rejectThrows"} =>
              /\ breaker'.lastFailureTime = now
              /\ breaker'.lastSuccessTime = breaker.lastSuccessTime
              /\ cell.failure = base.failure + 1
              /\ cell.success = base.success]_vars

\* C36: only the outcomes of requests admitted during the current half-open
\* period count for the half-open decision: a request admitted while closed,
\* or in an earlier half-open period, that completes while the breaker is
\* half-open neither advances halfOpenSuccesses nor reopens the breaker.
C36_OnlyCurrentProbesDecide ==
  [][(/\ last'.op \in {"resolve", "reject"}
      /\ breaker.state = "half-open"
      /\ last'.currentState = "closed" \/ last'.stale)
       => /\ breaker'.state = "half-open"
          /\ breaker'.halfOpenSuccesses = breaker.halfOpenSuccesses]_vars

\* C37, as claimed: recording a success (recordSuccess, or an execute whose
\* operation resolves) while the breaker is closed never moves it to open; a
\* closed breaker opens only by recording a failure or by forceState('open').
C37_SuccessNeverOpens ==
  [][(breaker.state = "closed" /\ breaker'.state = "open")
       => last'.op \in {"reject", "recordFailure", "forceState"}]_vars

\* C37, amended: a closed breaker opens only by forceState('open') or by a
\* recording, of a failure or of a success, after which the window holds at
\* least minimumRequests outcomes with a failure rate of at least
\* failureThreshold; a success recorded on any other window leaves it closed.
C37_OpensOnlyOnTrippedWindow ==
  [][LET m == windowMetrics(breaker', now)
         tripped == /\ m.totalRequests >= breaker.config.minimumRequests
                    /\ m.failedRequests * 100
                         >= breaker.config.failureThreshold * m.totalRequests
     IN  /\ (breaker.state = "closed" /\ breaker'.state = "open") =>
              \/ last'.op = "forceState"
              \/ last'.op \in {"resolve", "reject"} /\ tripped
         /\ (breaker.state = "closed" /\ last'.op = "resolve" /\ ~tripped) =>
              breaker'.state = "closed"]_vars

\* The operation of an execute admitted while closed resolved, and its success
\* opened the breaker.
C37_Witness ==
  /\ last.op = "resolve"
  /\ last.from = "closed"
  /\ breaker.state = "open"

\* C38: while the breaker is closed or open, halfOpenSuccesses and
\* halfOpenActiveRequests are 0; while it is half-open, halfOpenSuccesses is
\* below successThreshold.
C38_HalfOpenCounters ==
  /\ breaker.state \in {"closed", "open"} =>
       /\ breaker.halfOpenSuccesses = 0
       /\ breaker.halfOpenActiveRequests = 0
  /\ breaker.state = "half-open" =>
       breaker.halfOpenSuccesses < breaker.config.successThreshold

\* A half-open breaker one success short of closing, a probe in flight.
C38_Witness ==
  /\ breaker.state = "half-open"
  /\ breaker.halfOpenSuccesses = breaker.config.successThreshold - 1
  /\ breaker.halfOpenSuccesses > 0
  /\ breaker.halfOpenActiveRequests > 0

\* C39: an outcome recorded at time t stays counted by getMetrics at every
\* later time now with now - t <= rollingWindow - bucketDuration, for every
\* valid rollingWindow and bucketCount, unless the ring was cleared in
\* between.
C39_CountedThroughWindow ==
  \A i \in DOMAIN pure.log :
    now - pure.log[i].t
        <= breaker.config.rollingWindow - breaker.config.bucketDuration
      => Counted(pure.log[i], now)

\* C40: when every invocation of fn settles and every callback and predicate
\* returns, a retry run without per-attempt timeout eventually terminates,
\* returning a value or throwing, after at most maxAttempts invocations of fn
\* and at most maxAttempts - 1 sleeps.
C40_RetryTerminates ==
  <>(/\ retry.pc \in {"returned", "thrown"}
     /\ FnInvocations(retry) <= rcfg.maxAttempts
     /\ Len(SelectSeq(retry.events, LAMBDA x : x.ev = "sleep"))
          <= rcfg.maxAttempts - 1)

\* A run that used all its attempts and threw: maxAttempts invocations,
\* maxAttempts - 1 sleeps.
C40_Witness ==
  /\ retry.pc = "thrown"
  /\ rcfg.kind = "retry" /\ rcfg.timeout = 0
  /\ rcfg.maxAttempts = MaxAttemptsBound
  /\ FnInvocations(retry) = rcfg.maxAttempts
  /\ Len(SelectSeq(retry.events, LAMBDA x : x.ev = "sleep")) = rcfg.maxAttempts - 1

TypeOK ==
  /\ breaker.state \in {"closed", "open", "half-open"}
  /\ now \in StartTime .. StartTime + MaxElapsed

====
